---- MODULE Spec2Model ----
(***************************************************************************)
(* A model of kred/A7cam: the frame normalizer (_trim_to_eoi), the preview *)
(* cache of ImagePreviewManager, the RAW/JPEG pairing of                   *)
(* process_downloaded_file and the capture path of CameraHandler.          *)
(*                                                                         *)
(* The module holds one specification per subsystem; each one fixes the    *)
(* variables of the other subsystems:                                      *)
(*   SpecTrim   the frame normalizer applied to every bounded byte buffer  *)
(*   SpecCache  the preview cache under calls of its public operations     *)
(*   SpecPair   process_downloaded_file, the RAW extraction threads and    *)
(*              the pairing timers, interleaved                            *)
(*   SpecCam    CameraHandler driven as gui.py drives it: the frame loop,  *)
(*              the availability watcher and the tasks of the main loop    *)
(***************************************************************************)
EXTENDS Integers, Sequences, FiniteSets, Bags, TLC

(***************************************************************************)
(* Bounds of the model.                                                    *)
(***************************************************************************)
\* longest byte buffer handed to the normalizer
MaxLen == 7
\* number of distinct capture basenames
NumBases == 2
\* number of file notices delivered to process_downloaded_file
MaxNotices == 2
\* ImagePreviewManager(max_cache_size=...): the bound of the cache
max_cache_size == 2
\* number of distinct contents of the driver-owned preview buffer
BufGens == 2
\* FILE_ADDED events the device holds at one time
MaxEvents == 1
\* coroutines waiting on the main loop at one time
MaxQueue == 1
\* frame loops alive at the same time
NumCallers == 3
\* watcher threads ever started
MaxWatchers == 2
\* events the device produces in one run of the drain model
MaxArrivals == 3
\* notices in one run of the pending-map model
MaxPendNotices == 3
\* the largest code handed to set_orientation
MaxCode == 9
\* elapsed times are told apart up to this many units of 10 ms
TimeCap == 4
\* frame threads started in one run
MaxLoops == 3
\* pictures taken in one run of the download-list model
MaxShots == 2
\* frame loops running on the handler in the download-list model
MaxTakers == 2

\* EXIF-like orientation codes of CameraHandler
ORIENTATION_NORMAL == 1
ORIENTATION_180 == 3
ORIENTATION_270 == 6
ORIENTATION_90 == 8

\* CameraHandler._min_frame_interval, in units of 10 ms
min_frame_interval == 3
\* time.sleep(0.1) of LiveViewGUI._handle_frame_error, in units of 10 ms
frame_error_sleep == 10

\* CameraHandler._io_error_threshold
io_error_threshold == 5
\* len(CameraHandler._retry_delays): attempts of one retry round
max_attempts == 3

VARIABLES
    \* ---- frame normalizer ----
    trimIn,          \* the argument of _trim_to_eoi
    trimOut,         \* its result
    trimPc,          \* "call" before the call, "done" after it
    \* ---- preview cache (ImagePreviewManager) ----
    cache,           \* self._cache: sequence of CachedImage
    current_index,   \* self._current_index (0-based, -1 = live view)
    loaded,          \* cleanup_download_folder has run
    lastOp,          \* the cache operation called last
    lastRet,         \* what it returned
    preview_callback,\* self._preview_callback is set
    lastIns,         \* what the last insert or startup load did: the image,
                     \* replaced / evicted, and the callback invocations
    navDir,          \* direction of the run of navigation calls being counted
    navCount,        \* number of consecutive calls of that run
    navStart,        \* the cursor when the run started
    \* ---- RAW/JPEG pairing (ImagePreviewManager.process_downloaded_file) ----
    disk,            \* the tether download directory: file -> absent/good/bad
    persisted,       \* download_dir/<base>.jpg: what it was written from
    pending_raw,     \* the keys of self._pending_raw
    rawThreads,      \* running _process_raw_file threads: bag of [base, pc]
    timers,          \* pairing timers (_clear_pending_raw): bag of [base, pc]
    cur,             \* the notice process_downloaded_file is working on
    npc,             \* where process_downloaded_file stands
    noticesLeft,     \* notices still to come
    scen,            \* shape of the notice history so far
    scenBase,        \* the basename that history is about
    scenRaw,         \* whether its RAW file holds an embedded JPEG (good/bad)
    raised,          \* process_downloaded_file has raised to its caller
    \* ---- CameraHandler ----
    camera,          \* self.camera: "None", "uninit" (Camera(), init not done
                     \* or failed) or "open"
    lost_device,     \* self.lost_device
    io_error_counter,\* self._io_error_counter
    tether_running,  \* self._tether_running
    tether_callback, \* self._tether_callback: "None" or the registered one
    pending_downloads, \* self._pending_downloads
    camera_lock,     \* holder of self.camera_lock: "free", "frame" or, in
                     \* the drain model, "other" (another thread's download)
    \* ---- the device and its driver ----
    devEvents,       \* FILE_ADDED events the device has not delivered yet
    driverBuf,       \* content of the driver-owned preview buffer
    \* ---- gui.py: the threads that call the handler ----
    streaming_event, \* LiveViewGUI.streaming_event
    mainQ,           \* coroutines scheduled on the main loop, in order
    mpc,             \* where the main loop stands in _start_stream
    wpc,             \* where _watch_loop stands
    fpc,             \* where _frame_update_loop stands
    attempt,         \* attempt of _capture_preview_with_retry
    frame_data,      \* file_data of _capture_preview_with_retry: [kind, val]
    dlQueue,         \* downloads of _process_pending_downloads
    \* ---- history ----
    capturedVal,     \* what the buffer held when the capture returned
    copyTaken,       \* the bytes() copy of file_data: "no", "locked" (taken
                     \* with the lock held) or "unlocked"
    lastCall,        \* the device call the frame loop has just issued, kept
                     \* while the frame it belongs to is held: [op, lost, run]
    busyRun,         \* consecutive -110 failures since the last connect()
    lastLoss,        \* cause of the last transition into the lost state
    lossCb,          \* disconnect callbacks invoked for that transition
    frameCall,       \* the get_frame_base64 call of this iteration of the
                     \* frame loop: [class, ret]
    tornDown,        \* a capture of the running frame loop failed with -52
                     \* or a fatal error and no connect() has succeeded since
    \* ---- several frame loops on one handler ----
    callers,         \* the threads inside get_frame_base64: [pc, dl]
    inFlight,        \* driver operations in progress: <<thread, operation>>
    holder,          \* the thread that holds self.camera_lock, 0 for none
    \* ---- start_watch / stop_watch ----
    watch_running,   \* self._watch_running
    watch_stop_event,\* the Event self._watch_stop_event refers to: "absent",
                     \* "unset" or "set"
    watchers,        \* the _watch_loop threads: [pc, sig]
    \* ---- _poll_events_unlocked, one wait_for_event at a time ----
    events,          \* events pending at the device, oldest first: [type, name]
    dpc,             \* where the capturing thread stands
    snap,            \* what was pending when the drain was entered
    drainEnd,        \* how the drain of this attempt ended
    consumed,        \* the events this drain has taken from the device
    queueAtStart,    \* self._pending_downloads when the drain was entered
    arrivals,        \* events the device has produced so far
    \* ---- the preview cursor, one bytecode-level step at a time ----
    cache_lock,      \* holder of self._cache_lock: "free", "nav" or "ins"
    upc,             \* where the navigating thread stands: [pc, dir]
    utmp,            \* the value it loaded for `self._current_index -= 1`
    ipc,             \* where the thread in _replace_or_add_cached stands
    lastWriter,      \* the thread that wrote self._current_index last
    \* ---- the pending map for one basename, with its timers ----
    pend_files,      \* the files of that basename in the download directory
    pend_map,        \* self._pending_raw[base_name]: NoEntry, or the number
                     \* of the entry
    pend_timers,     \* the pairing timers still to fire, by the entry they
                     \* were started for
    pend_gen,        \* entries created so far
    pend_notices,    \* calls of process_downloaded_file so far
    pend_consumed,   \* the entries a JPEG notice has taken from the map
    pend_last,       \* what the last expiry did: [timer, popped, started]
    \* ---- the rotation of the live view ----
    orientation,     \* self.orientation
    orient_op,       \* the operation of the handler that ran last: [name, code]
    \* ---- the rate gate of _capture_preview_with_retry, time in 10 ms ----
    gate_pc,         \* where the frame thread stands
    gate_attempt,    \* attempt of the for loop
    gate_sleep,      \* what is left of the time.sleep the thread is in
    since_ts,        \* time.time() - self._last_capture_ts, up to TimeCap
    since_call,      \* time since the last gp_camera_capture_preview call
    \* ---- the frame threads _start_stream has started ----
    loops,           \* per thread: [pc, stale]; stale: the flag was cleared
                     \* while the thread was running
    \* ---- the list of queued downloads and the loops that take it ----
    dl_shots,        \* file-added events raised so far, numbered 1, 2, ...
    dl_dev,          \* how many of them still wait at the device
    dl_lists,        \* the list objects made for self._pending_downloads
    dl_ref,          \* the one self._pending_downloads refers to
    takers,          \* per frame loop: [pc, ref, pos]; ref is its local
                     \* `downloads`, pos the entries its for loop has done
    dl_handed,       \* the notices handed to _download_file, in order
    dl_loops         \* frame loops running on the handler

trimVars == <<trimIn, trimOut, trimPc>>
cacheVars == <<cache, current_index, loaded, lastOp, lastRet,
               preview_callback, lastIns>>
navVars == <<navDir, navCount, navStart>>
pairVars == <<disk, persisted, pending_raw, rawThreads, timers, cur, npc,
              noticesLeft, scen, scenBase, scenRaw, raised>>
sessVars == <<camera, lost_device, io_error_counter, tether_running,
              tether_callback>>
devVars == <<devEvents, driverBuf>>
guiVars == <<streaming_event, mainQ, mpc, wpc>>
frameVars == <<fpc, attempt, frame_data, dlQueue, pending_downloads,
               camera_lock>>
histVars == <<capturedVal, copyTaken, lastCall, busyRun, lastLoss,
              lossCb, frameCall, tornDown>>
camVars == <<sessVars, devVars, guiVars, frameVars, histVars>>
lockVars == <<callers, inFlight, holder>>
watchVars == <<watch_running, watch_stop_event, watchers>>
drainVars == <<events, dpc, snap, drainEnd, consumed, queueAtStart, arrivals>>
cursorVars == <<cache_lock, upc, utmp, ipc, lastWriter>>
\* the variables of the step-level models
pendVars == <<pend_files, pend_map, pend_timers, pend_gen, pend_notices,
              pend_consumed, pend_last>>
orientVars == <<orientation, orient_op>>
gateVars == <<gate_pc, gate_attempt, gate_sleep, since_ts, since_call>>
loopVars == <<loops>>
takeVars == <<dl_shots, dl_dev, dl_lists, dl_ref, takers, dl_handed,
              dl_loops>>
stepVars == <<drainVars, cursorVars, pendVars, orientVars, gateVars,
             loopVars, takeVars>>
vars == <<trimVars, cacheVars, navVars, pairVars, camVars, lockVars,
          watchVars, stepVars>>
\* what the actions of one subsystem leave alone
notTrim == <<cacheVars, navVars, pairVars, camVars, lockVars, watchVars,
            stepVars>>
notCache == <<trimVars, pairVars, camVars, lockVars, watchVars, stepVars>>
notPair == <<trimVars, navVars, loaded, lastOp, lastRet, preview_callback,
            lastIns, camVars, lockVars, watchVars, stepVars>>
notCam == <<trimVars, cacheVars, navVars, pairVars, lockVars, watchVars,
           stepVars>>
\* the frame loops of SpecLock use the lock, the download queue and the
\* device's events
notLock == <<trimVars, cacheVars, navVars, pairVars, sessVars, driverBuf,
            guiVars, fpc, attempt, frame_data, dlQueue, histVars, watchVars,
            stepVars>>
\* the watcher threads of SpecWatch use the session
notWatch == <<trimVars, cacheVars, navVars, pairVars, io_error_counter,
             devVars, guiVars, frameVars, capturedVal, copyTaken, lastCall,
             frameCall, lockVars, stepVars>>
\* the drain of SpecDrain uses the lock, the download queue, the tether
\* flag and the error counter
notDrain == <<trimVars, cacheVars, navVars, pairVars, camera, lost_device,
             tether_callback, devVars, guiVars, fpc, attempt, frame_data,
             dlQueue, histVars, lockVars, watchVars, cursorVars, pendVars,
             orientVars,
    gateVars,
    loopVars,
    takeVars>>
\* the threads of SpecCursor use the cursor of the cache
notCursor == <<trimVars, loaded, lastOp, lastRet, preview_callback,
              lastIns, navVars, pairVars, camVars, lockVars, watchVars,
              drainVars, pendVars, orientVars,
    gateVars,
    loopVars,
    takeVars>>
\* the actions of SpecPend use the pending map and its timers only
notPend == <<trimVars, cacheVars, navVars, pairVars, camVars, lockVars,
            watchVars, drainVars, cursorVars, orientVars,
    gateVars,
    loopVars,
    takeVars>>
\* the operations of SpecOrient use the session and the orientation
\* the rate gate of SpecGate has its own variables
notGate == <<trimVars, cacheVars, navVars, pairVars, camVars, lockVars,
            watchVars, drainVars, cursorVars, pendVars, orientVars,
    loopVars,
    takeVars>>
\* the frame threads of SpecLoops use the streaming flag
notLoops == <<trimVars, cacheVars, navVars, pairVars, sessVars, devVars,
             mainQ, mpc, wpc, frameVars, histVars, lockVars, watchVars,
             drainVars, cursorVars, pendVars, orientVars, gateVars,
    takeVars>>
\* the loops of SpecTake use the list of queued downloads only
notTake == <<trimVars, cacheVars, navVars, pairVars, camVars, lockVars,
            watchVars, drainVars, cursorVars, pendVars, orientVars,
            gateVars, loopVars>>
notOrient == <<trimVars, cacheVars, navVars, pairVars, devVars, guiVars,
              frameVars, histVars, lockVars, watchVars, drainVars,
              cursorVars, pendVars,
    gateVars,
    loopVars,
    takeVars>>

Max(S) == CHOOSE x \in S : \A y \in S : y <= x
Min(S) == CHOOSE x \in S : \A y \in S : x <= y

(***************************************************************************)
(* Frame Normalizer: CameraHandler._trim_to_eoi                            *)
(***************************************************************************)
\* the byte values that matter to the normalizer: 0x00, 0xD8, 0xD9, 0xFF
Bytes == {0, 216, 217, 255}
SOI == <<255, 216>>
EOI == <<255, 217>>

\* every byte string of at most n bytes
BytesUpTo(n) == UNION {[1..k -> Bytes] : k \in 0..n}

\* the arguments: a bytes object, or an object that is neither bytes nor bytearray
TrimInputs ==
    {[isBytes |-> TRUE, data |-> d] : d \in BytesUpTo(MaxLen)}
        \cup {[isBytes |-> FALSE, data |-> <<>>]}

None == [ok |-> FALSE, data |-> <<>>]
Some(d) == [ok |-> TRUE, data |-> d]

\* 0-based offsets at which pat occurs in data
Occurrences(data, pat) ==
    {i \in 0..(Len(data) - Len(pat)) : SubSeq(data, i + 1, i + Len(pat)) = pat}

\* bytes.startswith
startswith(data, pat) ==
    Len(data) >= Len(pat) /\ SubSeq(data, 1, Len(pat)) = pat

\* bytes.rfind: offset of the last occurrence, -1 when there is none
rfind(data, pat) ==
    IF Occurrences(data, pat) = {} THEN -1 ELSE Max(Occurrences(data, pat))

\* bytes.find from offset start: the first occurrence at or after it, or -1
find(data, pat, start) ==
    LET occ == {i \in Occurrences(data, pat) : i >= start}
    IN IF occ = {} THEN -1 ELSE Min(occ)

\* faulty variant: the SOI check is dropped
trim_to_eoi_noSoi(file_data) ==
    IF ~file_data.isBytes THEN None
    ELSE IF Len(file_data.data) < 4 THEN None
    ELSE LET eoi_idx == rfind(file_data.data, EOI)
         IN IF eoi_idx = -1 \/ eoi_idx < 2 THEN None
            ELSE Some(SubSeq(file_data.data, 1, eoi_idx + 2))

\* faulty variant: trims at the first EOI instead of the last one
trim_to_eoi_first(file_data) ==
    IF ~file_data.isBytes THEN None
    ELSE IF Len(file_data.data) < 4 THEN None
    ELSE IF ~startswith(file_data.data, SOI) THEN None
    ELSE LET eoi_idx == find(file_data.data, EOI, 0)
         IN IF eoi_idx = -1 \/ eoi_idx < 2 THEN None
            ELSE Some(SubSeq(file_data.data, 1, eoi_idx + 2))

trim_to_eoi(file_data) ==
    IF ~file_data.isBytes THEN None
    ELSE IF Len(file_data.data) < 4 THEN None
    ELSE IF ~startswith(file_data.data, SOI) THEN None
    ELSE LET eoi_idx == rfind(file_data.data, EOI)
         IN IF eoi_idx = -1 \/ eoi_idx < 2 THEN None
            ELSE Some(SubSeq(file_data.data, 1, eoi_idx + 2))

TrimInit ==
    /\ trimIn \in TrimInputs
    /\ trimOut = None
    /\ trimPc = "call"

TrimIdle ==
    /\ trimIn = [isBytes |-> FALSE, data |-> <<>>]
    /\ trimOut = None
    /\ trimPc = "idle"

\* one call of _trim_to_eoi
TrimToEoi ==
    /\ trimPc = "call"
    /\ trimOut' = trim_to_eoi(trimIn)
    /\ trimPc' = "done"
    /\ UNCHANGED trimIn
    /\ UNCHANGED notTrim

(***************************************************************************)
(* Preview cache: ImagePreviewManager                                      *)
(***************************************************************************)
Basenames == 1..NumBases
\* JPEG_EXTENSIONS
JpegExts == {"jpg", "jpeg"}
\* what the file behind an entry was made from: a file found on disk at startup,
\* a downloaded JPEG, or the thumbnail extracted from a RAW
Origins == {"disk", "jpeg", "thumb"}

\* CachedImage: filename is base + "." + ext; origin stands for the content of the
\* file at filepath
CachedImage(base, ext, origin) == [base |-> base, ext |-> ext, origin |-> origin]

\* the files cleanup_download_folder can find, in sorted order of their names
\* ("<b>.jpeg" sorts before "<b>.jpg")
DiskFiles == {<<b, e>> : b \in Basenames, e \in JpegExts}
FileRank(f) == 2 * f[1] + (IF f[2] = "jpeg" THEN 0 ELSE 1)
RECURSIVE SortedFiles(_)
SortedFiles(S) ==
    IF S = {} THEN <<>>
    ELSE LET f == CHOOSE x \in S : \A y \in S : FileRank(x) <= FileRank(y)
         IN <<f>> \o SortedFiles(S \ {f})

\* _load_jpeg_to_cache applied to each listed file: append, cursor to the last
RECURSIVE LoadAll(_, _)
LoadAll(c, files) ==
    IF files = <<>> THEN c
    ELSE LoadAll(Append(c, CachedImage(files[1][1], files[1][2], "disk")), Tail(files))

\* while len(cache) > max_cache_size: cache.pop(0)
\* faulty variant: nothing is evicted
TrimCache_keepAll(c) == c

RECURSIVE TrimCache(_)
TrimCache(c) ==
    IF Len(c) > max_cache_size THEN TrimCache(Tail(c)) ELSE c

\* the first index (1-based) whose entry has this basename, 0 when there is none
FindBase(c, base) ==
    LET hits == {i \in 1..Len(c) : c[i].base = base}
    IN IF hits = {} THEN 0 ELSE Min(hits)

\* faulty variant: the entry is always appended, never replaced
replace_or_add_cached_append(c, cached) ==
    LET c2 == TrimCache(Append(c, cached))
    IN [cache |-> c2, index |-> Len(c2) - 1, replaced |-> FALSE]

\* faulty variant: a matching entry is removed and the image appended as newest
replace_or_add_cached_moveToEnd(c, cached) ==
    LET idx == FindBase(c, cached.base)
        rest == IF idx = 0 THEN c
                ELSE SubSeq(c, 1, idx - 1) \o SubSeq(c, idx + 1, Len(c))
        c2 == TrimCache(Append(rest, cached))
    IN [cache |-> c2, index |-> Len(c2) - 1, replaced |-> idx # 0]

\* _replace_or_add_cached: the cache, the cursor and whether an entry was replaced
replace_or_add_cached(c, cached) ==
    LET idx == FindBase(c, cached.base)
    IN IF idx # 0
       THEN [cache |-> [c EXCEPT ![idx] = cached], index |-> idx - 1, replaced |-> TRUE]
       ELSE LET c2 == TrimCache(Append(c, cached))
            IN [cache |-> c2, index |-> Len(c2) - 1, replaced |-> FALSE]

\* faulty variant: navigate_previous wraps to the oldest entry
navigate_previous_index_noWrap(c, idx) ==
    IF idx - 1 < 0 THEN 0 ELSE idx - 1

\* navigate_previous on a non-empty cache: the new cursor
navigate_previous_index(c, idx) ==
    IF idx - 1 < 0 THEN Len(c) - 1 ELSE idx - 1

\* faulty variant: navigate_next stops at the newest entry
navigate_next_index_noWrap(c, idx) ==
    IF idx + 1 >= Len(c) THEN Len(c) - 1 ELSE idx + 1

\* navigate_next on a non-empty cache: the new cursor
navigate_next_index(c, idx) ==
    IF idx + 1 >= Len(c) THEN 0 ELSE idx + 1

\* no image
NoImg == [base |-> 0, ext |-> "none", origin |-> "none"]
\* no insert has just happened
NoIns == [img |-> NoImg, replaced |-> FALSE, evicted |-> 0,
          registered |-> FALSE, inserted |-> 0, calls |-> 0, arg |-> NoImg]

\* faulty variant: only an appended image is announced
preview_notifications_appendOnly(registered, replaced) ==
    IF registered /\ ~replaced THEN 1 ELSE 0

\* _replace_or_add_cached: if self._preview_callback: self._preview_callback(
\* cached), on the replace path and on the append path
preview_notifications(registered, replaced) ==
    IF registered THEN 1 ELSE 0

CacheInit ==
    /\ cache = <<>>
    /\ current_index = -1
    /\ loaded = FALSE
    /\ lastOp = "init"
    /\ lastRet = None
    /\ preview_callback = FALSE
    /\ lastIns = NoIns
    /\ navDir = "none"
    /\ navCount = 0
    /\ navStart = -1

NavReset ==
    /\ navDir' = "none"
    /\ navCount' = 0
    /\ navStart' = -1

\* a navigation call either continues the run of calls being counted or starts a
\* new run at the cursor it finds
NavCounted(dir) ==
    \/ /\ navDir = dir
       /\ navCount < Len(cache)
       /\ navCount' = navCount + 1
       /\ UNCHANGED <<navDir, navStart>>
    \/ /\ navDir' = dir
       /\ navCount' = 1
       /\ navStart' = current_index

\* cleanup_download_folder at startup: the JPEGs found are loaded in sorted order
CleanupDownloadFolder ==
    /\ ~loaded
    /\ \E files \in SUBSET DiskFiles :
          LET c2 == LoadAll(cache, SortedFiles(files))
          IN /\ cache' = c2
             /\ current_index' = IF files = {} THEN current_index ELSE Len(c2) - 1
             /\ lastIns' = [NoIns EXCEPT !.registered = preview_callback,
                                         !.inserted = Cardinality(files)]
    /\ loaded' = TRUE
    /\ lastOp' = "load"
    /\ lastRet' = None
    /\ NavReset
    /\ UNCHANGED preview_callback
    /\ UNCHANGED notCache

\* a processed image (JPEG or RAW thumbnail) reaches _replace_or_add_cached
InsertImage ==
    /\ \E b \in Basenames, o \in {"jpeg", "thumb"} :
          LET cached == CachedImage(b, "jpg", o)
              r == replace_or_add_cached(cache, cached)
              n == preview_notifications(preview_callback, r.replaced)
          IN /\ cache' = r.cache
             /\ current_index' = r.index
             /\ lastIns' = [img |-> cached,
                            replaced |-> r.replaced,
                            evicted |-> IF r.replaced THEN 0
                                        ELSE Len(cache) + 1 - Len(r.cache),
                            registered |-> preview_callback,
                            inserted |-> 1,
                            calls |-> n,
                            arg |-> IF n = 0 THEN NoImg ELSE cached]
    /\ lastOp' = "insert"
    /\ lastRet' = None
    /\ NavReset
    /\ UNCHANGED <<loaded, preview_callback>>
    /\ UNCHANGED notCache

GetLatestPreview ==
    /\ IF cache = <<>>
       THEN /\ lastRet' = None
            /\ UNCHANGED current_index
       ELSE /\ current_index' = Len(cache) - 1
            /\ lastRet' = Some(cache[Len(cache)])
    /\ lastOp' = "latest"
    /\ NavReset
    /\ lastIns' = NoIns
    /\ UNCHANGED <<cache, loaded, preview_callback>>
    /\ UNCHANGED notCache

NavigatePrevious ==
    /\ IF cache = <<>>
       THEN /\ lastRet' = None
            /\ NavReset
            /\ UNCHANGED current_index
       ELSE /\ current_index' = navigate_previous_index(cache, current_index)
            /\ lastRet' = Some(cache[current_index' + 1])
            /\ NavCounted("prev")
    /\ lastOp' = "prev"
    /\ lastIns' = NoIns
    /\ UNCHANGED <<cache, loaded, preview_callback>>
    /\ UNCHANGED notCache

NavigateNext ==
    /\ IF cache = <<>>
       THEN /\ lastRet' = None
            /\ NavReset
            /\ UNCHANGED current_index
       ELSE /\ current_index' = navigate_next_index(cache, current_index)
            /\ lastRet' = Some(cache[current_index' + 1])
            /\ NavCounted("next")
    /\ lastOp' = "next"
    /\ lastIns' = NoIns
    /\ UNCHANGED <<cache, loaded, preview_callback>>
    /\ UNCHANGED notCache

\* faulty variant: the cursor is left where it is
reset_index_keep(idx) == idx

\* reset_to_live_view: self._current_index = -1
reset_index(idx) == -1

ResetToLiveView ==
    /\ current_index' = reset_index(current_index)
    /\ lastOp' = "reset"
    /\ lastRet' = None
    /\ NavReset
    /\ lastIns' = NoIns
    /\ UNCHANGED <<cache, loaded, preview_callback>>
    /\ UNCHANGED notCache

\* set_preview_callback(callback)
SetPreviewCallback ==
    /\ ~preview_callback
    /\ preview_callback' = TRUE
    /\ lastOp' = "set_callback"
    /\ lastRet' = None
    /\ NavReset
    /\ lastIns' = NoIns
    /\ UNCHANGED <<cache, current_index, loaded>>
    /\ UNCHANGED notCache


(***************************************************************************)
(* RAW/JPEG pairing: process_downloaded_file, _process_raw_file,           *)
(* _process_jpeg_file, _clear_pending_raw                                  *)
(*                                                                         *)
(* Downloaded files land in the tether directory (CameraHandler            *)
(* ._tether_download_dir, "./downloads"); processed images are written to  *)
(* ImagePreviewManager.download_dir as <base>.jpg. A RAW file is "good"    *)
(* when an embedded JPEG can be extracted from it, a JPEG file when it     *)
(* can be opened. process_downloaded_file runs on the capturing thread,    *)
(* one notice at a time; _process_raw_file runs on threads of its own and  *)
(* _clear_pending_raw on timer threads.                                    *)
(***************************************************************************)
FileKinds == {"raw", "jpg"}
Files == Basenames \X FileKinds
NoNotice == [base |-> 0, kind |-> "none", mode |-> "none"]

OneBag(x) == SetToBag({x})

PairInit ==
    /\ disk = [f \in Files |-> "absent"]
    /\ persisted = [b \in Basenames |-> "none"]
    /\ pending_raw = {}
    /\ rawThreads = EmptyBag
    /\ timers = EmptyBag
    /\ cur = NoNotice
    /\ npc = "idle"
    /\ noticesLeft = MaxNotices
    /\ scen = "none"
    /\ scenBase = 0
    /\ scenRaw = "none"
    /\ raised = FALSE

PairIdle ==
    /\ disk = [f \in Files |-> "absent"]
    /\ persisted = [b \in Basenames |-> "none"]
    /\ pending_raw = {}
    /\ rawThreads = EmptyBag
    /\ timers = EmptyBag
    /\ cur = NoNotice
    /\ npc = "off"
    /\ noticesLeft = 0
    /\ scen = "none"
    /\ scenBase = 0
    /\ scenRaw = "none"
    /\ raised = FALSE

\* the history of notices: "raw" after one RAW notice without a sibling, "pair"
\* when the JPEG of that basename follows and process_downloaded_file returns for
\* it before the pairing timer fires, "raw_timeout" when the timer fires before
\* any other notice, "other" for every other history
ScenAfterNotice(b, k) ==
    IF scen = "none" /\ k = "raw" /\ disk[<<b, "jpg">>] = "absent" THEN "raw"
    ELSE IF scen = "raw" /\ k = "jpg" /\ b = scenBase THEN "pair"
    ELSE "other"

\* _download_file has written the file; the tether callback is called with it
NoticeArrives ==
    /\ npc = "idle"
    /\ noticesLeft > 0
    /\ \E b \in Basenames, k \in FileKinds, a \in {"good", "bad"} :
          /\ disk' = [disk EXCEPT ![<<b, k>>] = a]
          /\ cur' = [base |-> b, kind |-> k, mode |-> "none"]
          /\ scen' = ScenAfterNotice(b, k)
          /\ scenBase' = IF scen = "none" THEN b ELSE scenBase
          /\ scenRaw' = IF scen = "none" /\ k = "raw" THEN a ELSE scenRaw
    /\ noticesLeft' = noticesLeft - 1
    /\ npc' = "start"
    /\ UNCHANGED <<persisted, pending_raw, rawThreads, timers, raised>>
    /\ UNCHANGED <<cache, current_index>>
    /\ UNCHANGED notPair

\* process_downloaded_file up to the choice of its branch
ProcessDownloadedFile ==
    /\ npc = "start"
    /\ LET b == cur.base
       IN IF disk[<<b, cur.kind>>] = "absent"
          THEN \* not os.path.exists(filepath): return
               /\ npc' = "idle"
               /\ cur' = NoNotice
               /\ UNCHANGED <<pending_raw, rawThreads, timers>>
          ELSE IF cur.kind = "raw"
          THEN IF disk[<<b, "jpg">>] # "absent"
               THEN \* _find_jpeg_pair found the sibling: process it, delete the RAW
                    /\ npc' = "save"
                    /\ cur' = [cur EXCEPT !.mode = "sibling"]
                    /\ UNCHANGED <<pending_raw, rawThreads, timers>>
               ELSE \* pending entry, extraction thread, pairing timer
                    /\ pending_raw' = pending_raw \cup {b}
                    /\ rawThreads' = rawThreads (+) OneBag([base |-> b, pc |-> "extract"])
                    /\ timers' = timers (+) OneBag([base |-> b, pc |-> "armed"])
                    /\ npc' = "idle"
                    /\ cur' = NoNotice
          ELSE IF b \in pending_raw
               THEN /\ npc' = "pop"
                    /\ cur' = [cur EXCEPT !.mode = "paired"]
                    /\ UNCHANGED <<pending_raw, rawThreads, timers>>
               ELSE /\ npc' = "save"
                    /\ cur' = [cur EXCEPT !.mode = "standalone"]
                    /\ UNCHANGED <<pending_raw, rawThreads, timers>>
    /\ UNCHANGED <<disk, persisted, noticesLeft, scen, scenBase, scenRaw, raised>>
    /\ UNCHANGED <<cache, current_index>>
    /\ UNCHANGED notPair

\* raw_path, _ = self._pending_raw.pop(base_name): KeyError when a timer has
\* removed the entry since the membership test
PopPending ==
    /\ npc = "pop"
    /\ IF cur.base \in pending_raw
       THEN /\ pending_raw' = pending_raw \ {cur.base}
            /\ npc' = "save"
            /\ UNCHANGED <<cur, raised>>
       ELSE /\ raised' = TRUE
            /\ npc' = "idle"
            /\ cur' = NoNotice
            /\ UNCHANGED pending_raw
    /\ UNCHANGED <<disk, persisted, rawThreads, timers, noticesLeft, scen, scenBase, scenRaw>>
    /\ UNCHANGED <<cache, current_index>>
    /\ UNCHANGED notPair

\* what follows _process_jpeg_file in process_downloaded_file
AfterJpeg(mode) == IF mode = "standalone" THEN "idle" ELSE "delete"

\* _process_jpeg_file: open the JPEG and save it as download_dir/<base>.jpg; a
\* file that cannot be opened raises, which is caught and logged
JpegSave ==
    /\ npc = "save"
    /\ IF disk[<<cur.base, "jpg">>] = "good"
       THEN /\ persisted' = [persisted EXCEPT ![cur.base] = "jpeg"]
            /\ npc' = "cache"
            /\ UNCHANGED cur
       ELSE /\ npc' = AfterJpeg(cur.mode)
            /\ cur' = IF cur.mode = "standalone" THEN NoNotice ELSE cur
            /\ UNCHANGED persisted
    /\ UNCHANGED <<disk, pending_raw, rawThreads, timers, noticesLeft, scen, scenBase, scenRaw, raised>>
    /\ UNCHANGED <<cache, current_index>>
    /\ UNCHANGED notPair

\* _process_jpeg_file: _replace_or_add_cached(cached)
JpegCache ==
    /\ npc = "cache"
    /\ LET r == replace_or_add_cached(cache, CachedImage(cur.base, "jpg", "jpeg"))
       IN /\ cache' = r.cache
          /\ current_index' = r.index
    /\ npc' = AfterJpeg(cur.mode)
    /\ cur' = IF cur.mode = "standalone" THEN NoNotice ELSE cur
    /\ UNCHANGED <<disk, persisted, pending_raw, rawThreads, timers, noticesLeft,
                   scen, scenBase, scenRaw, raised>>
    /\ UNCHANGED notPair

\* _safe_delete: the file is removed when it exists
safe_delete(d, f) == [d EXCEPT ![f] = "absent"]

\* self._safe_delete(raw_path) after the sibling JPEG was processed
DeleteRawAfterJpeg ==
    /\ npc = "delete"
    /\ disk' = safe_delete(disk, <<cur.base, "raw">>)
    /\ npc' = "idle"
    /\ cur' = NoNotice
    /\ UNCHANGED <<persisted, pending_raw, rawThreads, timers, noticesLeft, scen,
                   scenBase, scenRaw, raised>>
    /\ UNCHANGED <<cache, current_index>>
    /\ UNCHANGED notPair

\* a thread or timer moves from one step to the next, or ends
Step(bag, t, pc2) ==
    IF pc2 = "end" THEN bag (-) OneBag(t)
    ELSE (bag (-) OneBag(t)) (+) OneBag([t EXCEPT !.pc = pc2])

\* _process_raw_file: _extract_jpeg_from_raw reads the RAW file; nothing is
\* extracted when the file is gone or holds no embedded JPEG
RawExtract ==
    /\ \E t \in BagToSet(rawThreads) :
          /\ t.pc = "extract"
          /\ rawThreads' = Step(rawThreads, t,
                IF disk[<<t.base, "raw">>] = "good" THEN "save" ELSE "end")
    /\ UNCHANGED <<disk, persisted, pending_raw, timers, cur, npc, noticesLeft,
                   scen, scenBase, scenRaw, raised>>
    /\ UNCHANGED <<cache, current_index>>
    /\ UNCHANGED notPair

\* _process_raw_file: the extracted JPEG is saved as download_dir/<base>.jpg
RawSave ==
    /\ \E t \in BagToSet(rawThreads) :
          /\ t.pc = "save"
          /\ persisted' = [persisted EXCEPT ![t.base] = "thumb"]
          /\ rawThreads' = Step(rawThreads, t, "cache")
    /\ UNCHANGED <<disk, pending_raw, timers, cur, npc, noticesLeft, scen, scenBase, scenRaw, raised>>
    /\ UNCHANGED <<cache, current_index>>
    /\ UNCHANGED notPair

\* _process_raw_file: _replace_or_add_cached(cached)
RawCache ==
    /\ \E t \in BagToSet(rawThreads) :
          /\ t.pc = "cache"
          /\ LET r == replace_or_add_cached(cache, CachedImage(t.base, "jpg", "thumb"))
             IN /\ cache' = r.cache
                /\ current_index' = r.index
          /\ rawThreads' = Step(rawThreads, t, "delete")
    /\ UNCHANGED <<disk, persisted, pending_raw, timers, cur, npc, noticesLeft,
                   scen, scenBase, scenRaw, raised>>
    /\ UNCHANGED notPair

\* _process_raw_file: the RAW file is deleted after its thumbnail was cached
RawDelete ==
    /\ \E t \in BagToSet(rawThreads) :
          /\ t.pc = "delete"
          /\ disk' = safe_delete(disk, <<t.base, "raw">>)
          /\ rawThreads' = Step(rawThreads, t, "end")
    /\ UNCHANGED <<persisted, pending_raw, timers, cur, npc, noticesLeft, scen,
                   scenBase, scenRaw, raised>>
    /\ UNCHANGED <<cache, current_index>>
    /\ UNCHANGED notPair

\* the pairing timer expires: _clear_pending_raw tests base_name in _pending_raw
TimerFires ==
    /\ \E t \in BagToSet(timers) :
          /\ t.pc = "armed"
          /\ timers' = Step(timers, t,
                IF t.base \in pending_raw THEN "pop" ELSE "end")
          /\ scen' = IF t.base # scenBase THEN scen
                     ELSE IF scen = "raw" THEN "raw_timeout"
                     ELSE IF scen = "pair" /\ npc # "idle" THEN "other"
                     ELSE scen
    /\ UNCHANGED <<disk, persisted, pending_raw, rawThreads, cur, npc, noticesLeft,
                   scenBase, scenRaw, raised>>
    /\ UNCHANGED <<cache, current_index>>
    /\ UNCHANGED notPair

\* _clear_pending_raw: the pop (KeyError on the timer thread when the entry has
\* been removed since the test)
TimerPop ==
    /\ \E t \in BagToSet(timers) :
          /\ t.pc = "pop"
          /\ IF t.base \in pending_raw
             THEN /\ pending_raw' = pending_raw \ {t.base}
                  /\ timers' = Step(timers, t, "exists")
             ELSE /\ timers' = Step(timers, t, "end")
                  /\ UNCHANGED pending_raw
    /\ UNCHANGED <<disk, persisted, rawThreads, cur, npc, noticesLeft, scen,
                   scenBase, scenRaw, raised>>
    /\ UNCHANGED <<cache, current_index>>
    /\ UNCHANGED notPair

\* _clear_pending_raw: a RAW file still on disk is processed on a new thread
TimerSpawn ==
    /\ \E t \in BagToSet(timers) :
          /\ t.pc = "exists"
          /\ timers' = Step(timers, t, "end")
          /\ rawThreads' =
                IF disk[<<t.base, "raw">>] # "absent"
                THEN rawThreads (+) OneBag([base |-> t.base, pc |-> "extract"])
                ELSE rawThreads
    /\ UNCHANGED <<disk, persisted, pending_raw, cur, npc, noticesLeft, scen,
                   scenBase, scenRaw, raised>>
    /\ UNCHANGED <<cache, current_index>>
    /\ UNCHANGED notPair

(***************************************************************************)
(* CameraHandler, driven as gui.py drives it.                              *)
(*                                                                         *)
(* Three threads call the handler: the frame loop (_frame_update_loop),    *)
(* the availability watcher (_watch_loop) and the main loop, which runs    *)
(* the coroutines the other two schedule (_start_stream_async,             *)
(* _handle_camera_lost).  One frame loop is modelled: a _start_stream that *)
(* finds the previous loop still running leaves that loop running.         *)
(***************************************************************************)
NoData == [kind |-> "none", val |-> 0]
\* what gp_file_get_data_and_size hands back: a view of the driver's buffer
\* or bytes the caller owns
DataKinds == {"memoryview", "bytes"}
\* the bytes file_data stands for; a memoryview reads the driver's buffer
Content(fd) == IF fd.kind = "memoryview" THEN driverBuf ELSE fd.val
\* the driver reuses its buffer: the content changes
NextBuf(b) == (b + 1) % BufGens
\* gp_camera_capture_preview: success, -110, -52, -1 / unspecified, other
CaptureOutcomes == {"ok", "busy", "notfound", "fatal", "other"}
ConnectOutcomes == {"connected", "init_failed", "summary_failed"}
ProcessOutcomes == {"frame", "corrupt", "failed", "notfound", "fatal"}
NoCall == [op |-> "none", lost |-> FALSE, run |-> 0]
\* how a get_frame_base64 call can go: a frame, or one of its failure classes
FrameClasses == {"ok", "no_session", "busy", "notfound", "fatal", "other",
                 "corrupt", "failed", "released"}
NoFrameCall == [class |-> "none", ret |-> "none"]
\* a failure that nothing catches reaches the caller
get_frame_returns_otherEscapes(class) ==
    IF class = "ok" THEN "frame"
    ELSE IF class \in {"other", "released"} THEN "raised"
    ELSE "nothing"

\* what get_frame_base64 hands to its caller for each class
get_frame_returns(class) ==
    CASE class = "ok" -> "frame"
         \* if not self.camera: return None
      [] class = "no_session" -> "nothing"
         \* except Exception in _capture_preview_with_retry: every branch of
         \* _handle_capture_error returns, None is returned
      [] class \in {"busy", "notfound", "fatal", "other", "released"} ->
            "nothing"
         \* _process_frame_to_base64: return None, also from its except
      [] class \in {"corrupt", "failed"} -> "nothing"
Returned(class) == [class |-> class, ret |-> get_frame_returns(class)]
Running(class) == [class |-> class, ret |-> "pending"]
Repeat(n) == [i \in 1..n |-> "file"]

CamInit ==
    /\ camera = "None"
    /\ lost_device = FALSE
    /\ io_error_counter = 0
    /\ tether_running = FALSE
    /\ tether_callback = "None"
    /\ pending_downloads = <<>>
    /\ camera_lock = "free"
    /\ devEvents = 0
    /\ driverBuf = 0
    /\ streaming_event = FALSE
    /\ mainQ = <<>>
    /\ mpc = "idle"
    /\ wpc = "poll"
    /\ fpc = "off"
    /\ attempt = 0
    /\ frame_data = NoData
    /\ dlQueue = <<>>
    /\ capturedVal = -1
    /\ copyTaken = "no"
    /\ lastCall = NoCall
    /\ busyRun = 0
    /\ lastLoss = "none"
    /\ lossCb = 0
    /\ frameCall = NoFrameCall
    /\ tornDown = FALSE

\* release(): tethering off, the session exited and forgotten, state reset
release ==
    /\ tether_running' = FALSE
    /\ camera' = "None"
    /\ lost_device' = FALSE
    /\ io_error_counter' = 0

\* connect(), first half: self.context = gp.Context(); self.camera = gp.Camera()
connect_begin ==
    /\ camera' = "uninit"
    /\ busyRun' = 0

\* connect() returns (True, ...) for this outcome
Connected(o) == o = "connected" /\ camera # "None"

\* connect(), second half: init, lost_device = False, get_summary; any
\* exception (a camera released meanwhile is None and has no init) sets
\* lost_device
connect_finish(o) ==
    /\ camera' = IF camera = "None" THEN "None"
                 ELSE IF o = "init_failed" THEN camera ELSE "open"
    /\ lost_device' = ~Connected(o)
    /\ lastLoss' = IF Connected(o) THEN "none"
                   ELSE IF ~lost_device THEN "connect" ELSE lastLoss
    /\ lossCb' = IF Connected(o) \/ ~lost_device THEN 0 ELSE lossCb
    /\ tornDown' = IF Connected(o) THEN FALSE ELSE tornDown

\* a retry loop with one entry too many
more_attempts_extra(a) == a < max_attempts + 1

\* for attempt, delay in enumerate(self._retry_delays, start=1): another
\* entry of the schedule is left after attempt a
more_attempts(a) == a < max_attempts

\* a capture that leaves the counter as it is
counter_after_capture_keep(c) == c

\* Success - reset error counter: self._io_error_counter = 0
counter_after_capture(c) == 0

\* the copy of the preview data taken inside the lock
copy_file_data_keepView(fd) == fd

copy_file_data(fd) ==
    IF fd.kind = "memoryview" THEN [kind |-> "bytes", val |-> driverBuf]
    ELSE fd

\* ---- the device ----
\* a picture is taken: the device holds one more FILE_ADDED event
FileAdded ==
    /\ devEvents + Len(pending_downloads) + Len(dlQueue) < MaxEvents
    /\ devEvents' = devEvents + 1
    /\ UNCHANGED <<sessVars, guiVars, frameVars, histVars, driverBuf>>
    /\ UNCHANGED notCam

\* ---- _watch_loop ----
WatchPoll ==
    /\ wpc = "poll"
    /\ camera = "None" \/ lost_device
    /\ connect_begin
    /\ wpc' = "init"
    /\ UNCHANGED <<lost_device, io_error_counter, tether_running,
                   tether_callback, devVars, streaming_event, mainQ, mpc,
                   frameVars, capturedVal, copyTaken,
                   lastCall, lastLoss, lossCb, frameCall, tornDown>>
    /\ UNCHANGED notCam

WatchInit ==
    /\ wpc = "init"
    /\ \E o \in ConnectOutcomes :
          /\ connect_finish(o)
          /\ wpc' = IF Connected(o) THEN "detected" ELSE "poll"
    /\ UNCHANGED <<io_error_counter, tether_running, tether_callback, devVars,
                   streaming_event, mainQ, mpc, frameVars, capturedVal, copyTaken, lastCall, busyRun,
                   frameCall>>
    /\ UNCHANGED notCam

\* self._watch_callback = LiveViewGUI._on_camera_detected
WatchDetected ==
    /\ wpc = "detected"
    /\ IF ~streaming_event
       THEN /\ Len(mainQ) < MaxQueue
            /\ mainQ' = Append(mainQ, "start_stream")
       ELSE UNCHANGED mainQ
    /\ wpc' = "tether"
    /\ UNCHANGED <<sessVars, devVars, streaming_event, mpc, frameVars, histVars>>
    /\ UNCHANGED notCam

\* if not self._tether_running: self.start_tether()
WatchTether ==
    /\ wpc = "tether"
    /\ IF ~tether_running
       THEN tether_callback' = "None" /\ tether_running' = TRUE
       ELSE UNCHANGED <<tether_callback, tether_running>>
    /\ wpc' = "poll"
    /\ UNCHANGED <<camera, lost_device, io_error_counter, devVars,
                   streaming_event, mainQ, mpc, frameVars, histVars>>
    /\ UNCHANGED notCam

\* ---- the main loop ----
\* _handle_camera_lost
MainCameraLost ==
    /\ mpc = "idle"
    /\ mainQ # <<>>
    /\ Head(mainQ) = "camera_lost"
    /\ streaming_event' = FALSE
    /\ release
    /\ mainQ' = Tail(mainQ)
    /\ UNCHANGED <<tether_callback, devVars, mpc, wpc, frameVars, histVars>>
    /\ UNCHANGED notCam

\* _start_stream_async -> _start_stream: connect() is called
MainStartStream ==
    /\ mpc = "idle"
    /\ mainQ # <<>>
    /\ Head(mainQ) = "start_stream"
    /\ connect_begin
    /\ mpc' = "init"
    /\ UNCHANGED <<lost_device, io_error_counter, tether_running,
                   tether_callback, devVars, streaming_event, mainQ, wpc,
                   frameVars, capturedVal, copyTaken,
                   lastCall, lastLoss, lossCb, frameCall, tornDown>>
    /\ UNCHANGED notCam

MainStartStreamInit ==
    /\ mpc = "init"
    /\ \E o \in ConnectOutcomes :
          /\ connect_finish(o)
          /\ IF Connected(o)
             THEN mpc' = "started" /\ UNCHANGED mainQ
             ELSE mpc' = "idle" /\ mainQ' = Tail(mainQ)
    /\ UNCHANGED <<io_error_counter, tether_running, tether_callback, devVars,
                   streaming_event, wpc, frameVars, capturedVal, copyTaken, lastCall, busyRun,
                   frameCall>>
    /\ UNCHANGED notCam

\* streaming_event.set(); frame_thread.start(); start_tether(callback=...)
MainStartStreamRun ==
    /\ mpc = "started"
    /\ streaming_event' = TRUE
    /\ fpc' = IF fpc \in {"off", "ended"} THEN "loop" ELSE fpc
    /\ tether_callback' = "process_downloaded_file"
    /\ tether_running' = TRUE
    /\ mainQ' = Tail(mainQ)
    /\ mpc' = "idle"
    /\ UNCHANGED <<camera, lost_device, io_error_counter, devVars, wpc,
                   attempt, frame_data, dlQueue, pending_downloads, camera_lock, histVars>>
    /\ UNCHANGED notCam

\* ---- _frame_update_loop ----
\* while self.streaming_event.is_set():
FrameLoop ==
    /\ fpc = "loop"
    /\ fpc' = IF streaming_event THEN "get_frame" ELSE "ended"
    /\ lastCall' = NoCall
    /\ frameCall' = NoFrameCall
    /\ tornDown' = IF streaming_event THEN tornDown ELSE FALSE
    /\ UNCHANGED <<sessVars, devVars, guiVars, attempt, frame_data, dlQueue,
                   pending_downloads, camera_lock, capturedVal,
                   copyTaken, busyRun, lastLoss, lossCb>>
    /\ UNCHANGED notCam

\* get_frame_base64: if not self.camera: return None
GetFrame ==
    /\ fpc = "get_frame"
    /\ IF camera = "None"
       THEN /\ fpc' = "frame_error"
            /\ frameCall' = Returned("no_session")
            /\ UNCHANGED attempt
       ELSE /\ fpc' = "attempt"
            /\ frameCall' = Running("none")
            /\ attempt' = 1
    /\ UNCHANGED <<sessVars, devVars, guiVars, frame_data, dlQueue,
                   pending_downloads, camera_lock, capturedVal, copyTaken,
                   lastCall, busyRun, lastLoss, lossCb, tornDown>>
    /\ UNCHANGED notCam

\* with self.camera_lock: self._poll_events_unlocked()
\* The drain stops early when wait_for_event raises; an event poll may reuse
\* the driver's buffer.
AcquireAndPoll ==
    /\ fpc = "attempt"
    /\ camera_lock = "free"
    /\ camera_lock' = "frame"
    /\ IF tether_running /\ camera # "None"
       THEN \E n \in 0..devEvents :
               /\ pending_downloads' = pending_downloads \o Repeat(n)
               /\ devEvents' = devEvents - n
               /\ driverBuf' \in {driverBuf, NextBuf(driverBuf)}
       ELSE UNCHANGED <<pending_downloads, devEvents, driverBuf>>
    /\ fpc' = "capture"
    /\ lastCall' = NoCall
    /\ UNCHANGED <<sessVars, guiVars, attempt, frame_data, dlQueue,
                   capturedVal, copyTaken, busyRun, lastLoss, lossCb,
                   frameCall, tornDown>>
    /\ UNCHANGED notCam

\* gp_camera_capture_preview(self.camera), gp_file_get_data_and_size and, on
\* an exception, _handle_capture_error
Capture ==
    /\ fpc = "capture"
    /\ IF camera = "None"
       THEN \* no camera object to call: TypeError, an "other" error
            /\ camera_lock' = "free"
            /\ fpc' = "frame_error"
            /\ attempt' = 0
            /\ frameCall' = Returned("released")
            /\ UNCHANGED <<lost_device, io_error_counter, driverBuf,
                           frame_data, capturedVal, lastCall, busyRun,
                           lastLoss, lossCb, tornDown>>
       ELSE \E o \in CaptureOutcomes :
            /\ lastCall' = [op |-> "capture", lost |-> lost_device,
                            run |-> busyRun]
            /\ CASE o = "ok" ->
                      /\ driverBuf' = NextBuf(driverBuf)
                      /\ \E k \in DataKinds :
                            frame_data' = [kind |-> k, val |-> driverBuf']
                      /\ capturedVal' = driverBuf'
                      /\ busyRun' = 0
                      /\ fpc' = "copy"
                      /\ attempt' = 0
                      /\ UNCHANGED <<camera_lock, lost_device,
                                     io_error_counter, lastLoss, lossCb,
                                     frameCall, tornDown>>
                 [] o = "busy" ->
                      /\ camera_lock' = "free"
                      /\ io_error_counter' = io_error_counter + 1
                      /\ busyRun' = busyRun + 1
                      /\ IF more_attempts(attempt)
                         THEN /\ attempt' = attempt + 1
                              /\ fpc' = "attempt"
                              /\ UNCHANGED frameCall
                         ELSE /\ attempt' = 0
                              /\ fpc' = "exhausted"
                              /\ frameCall' = Running("busy")
                      /\ UNCHANGED <<lost_device, driverBuf, frame_data,
                                     capturedVal, lastLoss, lossCb, tornDown>>
                 [] o \in {"notfound", "fatal"} ->
                      /\ camera_lock' = "free"
                      /\ lost_device' = TRUE
                      /\ lastLoss' = IF lost_device THEN lastLoss ELSE o
                      /\ lossCb' = IF lost_device THEN lossCb ELSE 0
                      /\ busyRun' = 0
                      /\ fpc' = "err_release"
                      /\ attempt' = 0
                      /\ frameCall' = Running(o)
                      /\ tornDown' = TRUE
                      /\ UNCHANGED <<io_error_counter, driverBuf, frame_data,
                                     capturedVal>>
                 [] o = "other" ->
                      /\ camera_lock' = "free"
                      /\ busyRun' = 0
                      /\ fpc' = "frame_error"
                      /\ attempt' = 0
                      /\ frameCall' = Returned("other")
                      /\ UNCHANGED <<lost_device, io_error_counter, driverBuf,
                                     frame_data, capturedVal, lastLoss, lossCb,
                                     tornDown>>
    /\ UNCHANGED <<camera, tether_running, tether_callback, devEvents, guiVars,
                   dlQueue, pending_downloads, copyTaken>>
    /\ UNCHANGED notCam

\* if isinstance(file_data, memoryview): file_data = bytes(file_data); the
\* with block ends
Copy ==
    /\ fpc = "copy"
    /\ frame_data' = copy_file_data(frame_data)
    /\ copyTaken' = IF frame_data.kind # "memoryview" THEN "no"
                    ELSE IF camera_lock = "frame" THEN "locked"
                    ELSE "unlocked"
    /\ camera_lock' = "free"
    /\ fpc' = "downloads"
    /\ lastCall' = NoCall
    /\ UNCHANGED <<sessVars, devVars, guiVars, attempt, dlQueue,
                   pending_downloads, capturedVal, busyRun, lastLoss,
                   lossCb, frameCall, tornDown>>
    /\ UNCHANGED notCam

\* _process_pending_downloads: the queue is taken over and emptied
Downloads ==
    /\ fpc = "downloads"
    /\ IF pending_downloads = <<>>
       THEN fpc' = "success" /\ UNCHANGED <<dlQueue, pending_downloads>>
       ELSE /\ dlQueue' = pending_downloads
            /\ pending_downloads' = <<>>
            /\ fpc' = "download"
    /\ UNCHANGED <<sessVars, devVars, guiVars, histVars, attempt, frame_data,
                   camera_lock>>
    /\ UNCHANGED notCam

\* _download_file for the next queued notice: gp_camera_file_get under the
\* lock; a download may reuse the driver's buffer
Download ==
    /\ fpc = "download"
    /\ camera_lock = "free"
    /\ IF camera = "None"
       THEN UNCHANGED <<lastCall, driverBuf>>
       ELSE /\ lastCall' = [op |-> "download", lost |-> lost_device,
                             run |-> busyRun]
            /\ driverBuf' \in {driverBuf, NextBuf(driverBuf)}
    /\ dlQueue' = Tail(dlQueue)
    /\ fpc' = IF Tail(dlQueue) = <<>> THEN "success" ELSE "download"
    /\ UNCHANGED <<sessVars, devEvents, guiVars, attempt, frame_data,
                   pending_downloads, camera_lock, capturedVal, copyTaken, busyRun,
                   lastLoss, lossCb, frameCall, tornDown>>
    /\ UNCHANGED notCam

\* self._io_error_counter = 0; return file_data
Success ==
    /\ fpc = "success"
    /\ io_error_counter' = counter_after_capture(io_error_counter)
    /\ fpc' = "process"
    /\ UNCHANGED <<camera, lost_device, tether_running, tether_callback,
                   devVars, guiVars, histVars, attempt, frame_data, dlQueue,
                   pending_downloads, camera_lock>>
    /\ UNCHANGED notCam

\* _process_frame_to_base64(file_data): a frame, a corrupt frame, None from a
\* failed encode, or an exception whose text names -52 or -1
ProcessFrame ==
    /\ fpc = "process"
    /\ \E r \in ProcessOutcomes :
          CASE r = "frame" ->
                 /\ io_error_counter' = 0
                 /\ fpc' = "loop"
                 /\ frameCall' = Returned("ok")
                 /\ UNCHANGED <<lost_device, lastLoss, lossCb>>
            [] r = "corrupt" ->
                 /\ io_error_counter' = io_error_counter + 1
                 /\ fpc' = "frame_error"
                 /\ frameCall' = Returned("corrupt")
                 /\ UNCHANGED <<lost_device, lastLoss, lossCb>>
            [] r = "failed" ->
                 /\ fpc' = "frame_error"
                 /\ frameCall' = Returned("failed")
                 /\ UNCHANGED <<io_error_counter, lost_device, lastLoss,
                                lossCb>>
            [] r \in {"notfound", "fatal"} ->
                 /\ lost_device' = TRUE
                 /\ lastLoss' = IF lost_device THEN lastLoss ELSE r
                 /\ lossCb' = IF lost_device THEN lossCb ELSE 0
                 /\ fpc' = "err_release"
                 /\ frameCall' = Running(r)
                 /\ UNCHANGED io_error_counter
    /\ frame_data' = NoData
    /\ capturedVal' = -1
    /\ copyTaken' = "no"
    /\ UNCHANGED <<camera, tether_running, tether_callback, devVars, guiVars,
                   attempt, dlQueue, pending_downloads, camera_lock, lastCall,
                   busyRun, tornDown>>
    /\ UNCHANGED notCam

\* the retry round is used up: the threshold is looked at
Exhausted ==
    /\ fpc = "exhausted"
    /\ IF io_error_counter >= io_error_threshold
       THEN /\ lost_device' = TRUE
            /\ lastLoss' = IF lost_device THEN lastLoss ELSE "threshold"
            /\ lossCb' = IF lost_device THEN lossCb ELSE 0
       ELSE UNCHANGED <<lost_device, lastLoss, lossCb>>
    /\ fpc' = "frame_error"
    /\ frameCall' = Returned("busy")
    /\ lastCall' = NoCall
    /\ UNCHANGED <<camera, io_error_counter, tether_running, tether_callback,
                   devVars, guiVars, attempt, frame_data, dlQueue,
                   pending_downloads, camera_lock, capturedVal, copyTaken, busyRun,
                   tornDown>>
    /\ UNCHANGED notCam

\* _handle_capture_error, -52 and -1: self.release()
ErrRelease ==
    /\ fpc = "err_release"
    /\ release
    /\ fpc' = "err_callback"
    /\ lastCall' = NoCall
    /\ UNCHANGED <<tether_callback, devVars, guiVars, attempt,
                   frame_data, dlQueue, pending_downloads, camera_lock,
                   capturedVal, copyTaken, busyRun, lastLoss, lossCb,
                   frameCall, tornDown>>
    /\ UNCHANGED notCam

\* self._disconnect_callback(False, err_str) = LiveViewGUI._on_camera_lost,
\* which schedules _handle_camera_lost on the main loop
ErrCallback ==
    /\ fpc = "err_callback"
    /\ Len(mainQ) < MaxQueue
    /\ mainQ' = Append(mainQ, "camera_lost")
    /\ lossCb' = lossCb + 1
    /\ fpc' = "frame_error"
    /\ frameCall' = Returned(frameCall.class)
    /\ UNCHANGED <<sessVars, devVars, streaming_event, mpc, wpc, attempt,
                   frame_data, dlQueue, pending_downloads, camera_lock, capturedVal, copyTaken,
                   lastCall, busyRun, lastLoss, tornDown>>
    /\ UNCHANGED notCam

\* LiveViewGUI._handle_frame_error
FrameError ==
    /\ fpc = "frame_error"
    /\ IF lost_device
       THEN /\ streaming_event' = FALSE
            /\ release
            /\ fpc' = "ended"
            /\ UNCHANGED <<lastLoss, lossCb>>
       ELSE IF io_error_counter >= io_error_threshold
       THEN /\ streaming_event' = FALSE
            /\ release
            /\ fpc' = "ended"
            /\ lastLoss' = "gui"
            /\ lossCb' = 0
       ELSE /\ fpc' = "loop"
            /\ UNCHANGED <<sessVars, streaming_event, lastLoss, lossCb>>
    /\ frameCall' = NoFrameCall
    /\ lastCall' = NoCall
    /\ tornDown' = IF fpc' = "ended" THEN FALSE ELSE tornDown
    /\ UNCHANGED <<tether_callback, devVars, mainQ, mpc, wpc, attempt,
                   frame_data, dlQueue, pending_downloads, camera_lock, capturedVal, copyTaken,
                   busyRun>>
    /\ UNCHANGED notCam

(***************************************************************************)
(* Several frame loops on one handler.                                     *)
(*                                                                         *)
(* _start_stream starts a new _frame_update_loop thread on every call and  *)
(* never waits for the previous one, so more than one thread can be inside *)
(* get_frame_base64.  Each driver operation has a begin and an end.        *)
(***************************************************************************)
Callers == 1..NumCallers
CallerIdle == [pc |-> "idle", dl |-> 0]
DriverOps == {"drain", "capture", "download"}

LockInit ==
    /\ callers = [t \in Callers |-> CallerIdle]
    /\ inFlight = {}
    /\ holder = 0

\* a lock that lets everybody in
lock_acquirable_always(lock) == TRUE

\* threading.Lock: `with self.camera_lock:` goes on when nobody holds it
lock_acquirable(lock) == lock = "free"

\* downloads taken up inside the with block
holder_after_with_kept(t) == t

\* the end of `with self.camera_lock:` (line 130), before
\* self._process_pending_downloads() (line 133)
holder_after_with(t) == 0

LockOf(h) == IF h = 0 THEN "free" ELSE "frame"

\* a connected, streaming session with tethering on
CamStreaming ==
    /\ camera = "open"
    /\ lost_device = FALSE
    /\ io_error_counter = 0
    /\ tether_running = TRUE
    /\ tether_callback = "process_downloaded_file"
    /\ pending_downloads = <<>>
    /\ camera_lock = "free"
    /\ devEvents = 0
    /\ driverBuf = 0
    /\ streaming_event = TRUE
    /\ mainQ = <<>>
    /\ mpc = "idle"
    /\ wpc = "poll"
    /\ fpc = "off"
    /\ attempt = 0
    /\ frame_data = NoData
    /\ dlQueue = <<>>
    /\ capturedVal = -1
    /\ copyTaken = "no"
    /\ lastCall = NoCall
    /\ busyRun = 0
    /\ lastLoss = "none"
    /\ lossCb = 0
    /\ frameCall = NoFrameCall
    /\ tornDown = FALSE

\* a picture is taken while several loops run
LockFileAdded ==
    /\ devEvents + Len(pending_downloads) < MaxEvents
    /\ \A t \in Callers : callers[t].dl = 0
    /\ devEvents' = devEvents + 1
    /\ UNCHANGED <<callers, inFlight, camera_lock, pending_downloads>>
    /\ UNCHANGED holder
    /\ UNCHANGED notLock

\* get_frame_base64 is called and reaches `with self.camera_lock:`
CallerCall(t) ==
    /\ callers[t].pc = "idle"
    /\ callers' = [callers EXCEPT ![t].pc = "lock"]
    /\ UNCHANGED <<inFlight, camera_lock, pending_downloads, devEvents>>
    /\ UNCHANGED holder
    /\ UNCHANGED notLock

CallerAcquire(t) ==
    /\ callers[t].pc = "lock"
    /\ lock_acquirable(camera_lock)
    /\ camera_lock' = "frame"
    /\ holder' = t
    /\ callers' = [callers EXCEPT ![t].pc = "drain"]
    /\ UNCHANGED <<inFlight, pending_downloads, devEvents>>
    /\ UNCHANGED notLock

\* _poll_events_unlocked: the first self.camera.wait_for_event(0)
CallerDrain(t) ==
    /\ callers[t].pc = "drain"
    /\ inFlight' = inFlight \cup {<<t, "drain">>}
    /\ callers' = [callers EXCEPT ![t].pc = "draining"]
    /\ UNCHANGED <<camera_lock, pending_downloads, devEvents>>
    /\ UNCHANGED holder
    /\ UNCHANGED notLock

\* the drain ends: the notices found are queued
CallerDrained(t) ==
    /\ callers[t].pc = "draining"
    /\ \E n \in 0..devEvents :
          /\ pending_downloads' = pending_downloads \o Repeat(n)
          /\ devEvents' = devEvents - n
    /\ inFlight' = inFlight \ {<<t, "drain">>}
    /\ callers' = [callers EXCEPT ![t].pc = "capture"]
    /\ UNCHANGED camera_lock
    /\ UNCHANGED holder
    /\ UNCHANGED notLock

\* gp_camera_capture_preview begins
CallerCapture(t) ==
    /\ callers[t].pc = "capture"
    /\ inFlight' = inFlight \cup {<<t, "capture">>}
    /\ callers' = [callers EXCEPT ![t].pc = "capturing"]
    /\ UNCHANGED <<camera_lock, pending_downloads, devEvents>>
    /\ UNCHANGED holder
    /\ UNCHANGED notLock

\* the capture returns or raises; either way the with block is left
CallerCaptured(t) ==
    /\ callers[t].pc = "capturing"
    /\ inFlight' = inFlight \ {<<t, "capture">>}
    /\ holder' = holder_after_with(t)
    /\ camera_lock' = LockOf(holder')
    /\ \E ok \in BOOLEAN :
          callers' = [callers EXCEPT
                         ![t].pc = IF ok THEN "downloads" ELSE "idle"]
    /\ UNCHANGED <<pending_downloads, devEvents>>
    /\ UNCHANGED notLock

\* _process_pending_downloads: downloads = self._pending_downloads;
\* self._pending_downloads = []
CallerTakeDownloads(t) ==
    /\ callers[t].pc = "downloads"
    /\ callers' = [callers EXCEPT
                      ![t].dl = Len(pending_downloads),
                      ![t].pc = IF pending_downloads = <<>> THEN "idle"
                                ELSE "dl_lock"]
    /\ pending_downloads' = <<>>
    /\ UNCHANGED <<inFlight, camera_lock, devEvents>>
    /\ UNCHANGED holder
    /\ UNCHANGED notLock

\* _download_file: with self.camera_lock:
CallerDownloadAcquire(t) ==
    /\ callers[t].pc = "dl_lock"
    /\ lock_acquirable(camera_lock)
    /\ camera_lock' = "frame"
    /\ holder' = t
    /\ callers' = [callers EXCEPT ![t].pc = "dl"]
    /\ UNCHANGED <<inFlight, pending_downloads, devEvents>>
    /\ UNCHANGED notLock

\* gp_camera_file_get begins
CallerDownload(t) ==
    /\ callers[t].pc = "dl"
    /\ inFlight' = inFlight \cup {<<t, "download">>}
    /\ callers' = [callers EXCEPT ![t].pc = "downloading"]
    /\ UNCHANGED <<camera_lock, pending_downloads, devEvents>>
    /\ UNCHANGED holder
    /\ UNCHANGED notLock

\* the download ends; the next queued file, or the call goes on
CallerDownloaded(t) ==
    /\ callers[t].pc = "downloading"
    /\ inFlight' = inFlight \ {<<t, "download">>}
    /\ camera_lock' = "free"
    /\ holder' = 0
    /\ callers' = [callers EXCEPT
                      ![t].dl = callers[t].dl - 1,
                      ![t].pc = IF callers[t].dl = 1 THEN "idle"
                                ELSE "dl_lock"]
    /\ UNCHANGED <<pending_downloads, devEvents>>
    /\ UNCHANGED notLock

(***************************************************************************)
(* start_watch, stop_watch and the _watch_loop threads they leave behind.  *)
(*                                                                         *)
(* stop_watch waits at most 1.0 s for the thread, which sleeps 2.0 s per   *)
(* iteration and may sit in connect(): it can return with the thread       *)
(* alive.                                                                  *)
(* Every iteration reads self._watch_stop_event anew.                      *)
(***************************************************************************)
WatcherIds == 1..MaxWatchers
Unborn == [pc |-> "unborn", sig |-> "no"]
Alive(w) == w.pc \notin {"unborn", "done"}

WatcherInit ==
    /\ watch_running = FALSE
    /\ watch_stop_event = "absent"
    /\ watchers = [i \in WatcherIds |-> Unborn]

\* self._watch_stop_event = threading.Event()
start_watch_event(ev) == "unset"

\* start_watch(): returns at once while _watch_running; else a new Event, a
\* new thread, _watch_running = True
StartWatch ==
    /\ ~watch_running
    /\ \E i \in WatcherIds :
          /\ watchers[i].pc = "unborn"
          /\ \A j \in WatcherIds : j < i => watchers[j].pc # "unborn"
          /\ watchers' = [watchers EXCEPT ![i].pc = "test"]
    /\ watch_stop_event' = start_watch_event(watch_stop_event)
    /\ watch_running' = TRUE
    /\ UNCHANGED <<sessVars, busyRun, lastLoss, lossCb, tornDown>>
    /\ UNCHANGED notWatch

\* stop_watch(), first half: self._watch_stop_event.set().  Every thread
\* alive now has been told to stop.
StopWatch ==
    /\ watch_running
    /\ watch_stop_event = "unset"
    /\ watch_stop_event' = "set"
    /\ watchers' = [i \in WatcherIds |->
                       IF Alive(watchers[i])
                       THEN [watchers[i] EXCEPT !.sig = "signalled"]
                       ELSE watchers[i]]
    /\ UNCHANGED watch_running
    /\ UNCHANGED <<sessVars, busyRun, lastLoss, lossCb, tornDown>>
    /\ UNCHANGED notWatch

\* what a thread can still be doing when join(timeout=1.0) gives up: the
\* 2.0 s sleep, or a connect() that takes its time
Blocking == {"sleep", "init"}

\* stop_watch(), second half: the join is over (the thread has ended or the
\* timeout has passed), self._watch_running = False
StopWatchReturns ==
    /\ watch_running
    /\ watch_stop_event = "set"
    /\ \A i \in WatcherIds :
          Alive(watchers[i]) => watchers[i].pc \in Blocking
    /\ watch_running' = FALSE
    /\ UNCHANGED <<watch_stop_event, watchers>>
    /\ UNCHANGED <<sessVars, busyRun, lastLoss, lossCb, tornDown>>
    /\ UNCHANGED notWatch

\* while not getattr(self, "_watch_stop_event", ...).is_set():
WatchLoopTest(i) ==
    /\ watchers[i].pc = "test"
    /\ watchers' = [watchers EXCEPT ![i] =
          IF watch_stop_event = "set"
          THEN [pc |-> "done", sig |-> @.sig]
          ELSE [pc |-> "body",
                sig |-> IF @.sig = "signalled" THEN "iterated" ELSE @.sig]]
    /\ UNCHANGED <<watch_running, watch_stop_event>>
    /\ UNCHANGED <<sessVars, busyRun, lastLoss, lossCb, tornDown>>
    /\ UNCHANGED notWatch

\* if self.camera is None or self.lost_device: connect() is entered
WatchLoopBody(i) ==
    /\ watchers[i].pc = "body"
    /\ IF camera = "None" \/ lost_device
       THEN /\ connect_begin
            /\ watchers' = [watchers EXCEPT ![i].pc = "init"]
       ELSE /\ watchers' = [watchers EXCEPT ![i].pc = "sleep"]
            /\ UNCHANGED <<camera, busyRun>>
    /\ UNCHANGED <<watch_running, watch_stop_event>>
    /\ UNCHANGED <<lost_device, io_error_counter, tether_running,
                   tether_callback, lastLoss, lossCb, tornDown>>
    /\ UNCHANGED notWatch

\* connect() ends; on success the callback is invoked and tethering started
WatchLoopConnect(i) ==
    /\ watchers[i].pc = "init"
    /\ \E o \in ConnectOutcomes :
          /\ connect_finish(o)
          /\ IF Connected(o) /\ ~tether_running
             THEN tether_callback' = "None" /\ tether_running' = TRUE
             ELSE UNCHANGED <<tether_callback, tether_running>>
    /\ watchers' = [watchers EXCEPT ![i].pc = "sleep"]
    /\ UNCHANGED <<watch_running, watch_stop_event>>
    /\ UNCHANGED <<io_error_counter, busyRun>>
    /\ UNCHANGED notWatch

\* time.sleep(poll_interval) is over
WatchLoopSleep(i) ==
    /\ watchers[i].pc = "sleep"
    /\ watchers' = [watchers EXCEPT ![i].pc = "test"]
    /\ UNCHANGED <<watch_running, watch_stop_event>>
    /\ UNCHANGED <<sessVars, busyRun, lastLoss, lossCb, tornDown>>
    /\ UNCHANGED notWatch

\* the GUI releases the session (_on_window_event, _handle_camera_lost)
WatchedRelease ==
    /\ camera # "None"
    /\ release
    /\ UNCHANGED <<watch_running, watch_stop_event, watchers>>
    /\ UNCHANGED <<tether_callback, busyRun, lastLoss, lossCb, tornDown>>
    /\ UNCHANGED notWatch

(***************************************************************************)
(* The event drain, one wait_for_event at a time.                          *)
(*                                                                         *)
(* _capture_preview_with_retry takes the device lock, calls                *)
(* _poll_events_unlocked and then gp_camera_capture_preview.  The device   *)
(* produces events while the thread runs; the main thread switches         *)
(* tethering on and off.                                                   *)
(***************************************************************************)
EventTypes == {"file", "other"}
NoSnap == [events |-> <<>>, tether |-> FALSE]

DrainInit ==
    /\ events = <<>>
    /\ dpc = "idle"
    /\ snap = NoSnap
    /\ drainEnd = "none"
    /\ consumed = <<>>
    /\ queueAtStart = <<>>
    /\ arrivals = 0


\* the names of the FILE_ADDED events of a sequence of events, in order
RECURSIVE FileNames(_)
FileNames(es) ==
    IF es = <<>> THEN <<>>
    ELSE IF Head(es).type = "file"
         THEN <<Head(es).name>> \o FileNames(Tail(es))
         ELSE FileNames(Tail(es))

SeqRange(q) == {q[i] : i \in 1..Len(q)}
IsPrefix(a, b) == Len(a) <= Len(b) /\ SubSeq(b, 1, Len(a)) = a

\* a drain that is never entered
drain_skipped_always(tr, cam) == TRUE

\* if not getattr(self, '_tether_running', False): return
\* if self.camera is None: return
drain_skipped(tr, cam) == ~tr \/ cam = "None"

\* a drain that stops after whatever event comes first
is_timeout_any(evt) == TRUE

\* if event_type == gp.GP_EVENT_TIMEOUT: break
is_timeout(evt) == evt.type = "timeout"

\* an exception of the drain that counts as a failed capture
drain_raise_counter_counted(c) == c + 1

\* except Exception: pass
drain_raise_counter(c) == c

\* self.camera.wait_for_event(0) with nothing pending
TimeoutEvent == [type |-> "timeout", name |-> 0]

DrainIdleGhosts ==
    /\ snap' = NoSnap
    /\ drainEnd' = "none"
    /\ consumed' = <<>>
    /\ queueAtStart' = <<>>

\* the camera reports an event: a picture was taken, or something else
DrainEventArrives ==
    /\ arrivals < MaxArrivals
    /\ \E ty \in EventTypes :
          events' = Append(events, [type |-> ty, name |-> arrivals + 1])
    /\ arrivals' = arrivals + 1
    /\ UNCHANGED <<dpc, snap, drainEnd, consumed, queueAtStart,
                   pending_downloads, camera_lock, tether_running,
                   io_error_counter>>
    /\ UNCHANGED notDrain

\* start_tether (gui._start_stream, _watch_loop)
DrainStartTether ==
    /\ ~tether_running
    /\ tether_running' = TRUE
    /\ UNCHANGED <<drainVars, pending_downloads, camera_lock,
                   io_error_counter>>
    /\ UNCHANGED notDrain

\* stop_tether (gui._stop_stream)
DrainStopTether ==
    /\ tether_running
    /\ tether_running' = FALSE
    /\ UNCHANGED <<drainVars, pending_downloads, camera_lock,
                   io_error_counter>>
    /\ UNCHANGED notDrain

\* with self.camera_lock:
DrainAcquire ==
    /\ dpc = "idle"
    /\ lock_acquirable(camera_lock)
    /\ camera_lock' = "frame"
    /\ dpc' = "poll"
    /\ UNCHANGED <<events, snap, drainEnd, consumed, queueAtStart, arrivals,
                   pending_downloads, tether_running, io_error_counter>>
    /\ UNCHANGED notDrain

\* _poll_events_unlocked is entered: the two early returns
DrainEnter ==
    /\ dpc = "poll"
    /\ snap' = [events |-> events, tether |-> tether_running]
    /\ queueAtStart' = pending_downloads
    /\ consumed' = <<>>
    /\ IF drain_skipped(tether_running, camera)
       THEN /\ drainEnd' = "skipped"
            /\ dpc' = "capture"
       ELSE /\ drainEnd' = "running"
            /\ dpc' = "wait"
    /\ UNCHANGED <<events, arrivals, pending_downloads, camera_lock,
                   tether_running, io_error_counter>>
    /\ UNCHANGED notDrain

\* evt = self.camera.wait_for_event(0) returns, and the loop body handles it
DrainWait ==
    /\ dpc = "wait"
    /\ LET evt == IF events = <<>> THEN TimeoutEvent ELSE Head(events)
       IN  /\ events' = IF events = <<>> THEN events ELSE Tail(events)
           /\ consumed' = IF events = <<>> THEN consumed
                          ELSE Append(consumed, evt)
           /\ IF is_timeout(evt)
              THEN /\ drainEnd' = "timeout"
                   /\ dpc' = "capture"
                   /\ UNCHANGED pending_downloads
              ELSE /\ pending_downloads' =
                         IF evt.type = "file"
                         THEN Append(pending_downloads, evt.name)
                         ELSE pending_downloads
                   /\ UNCHANGED <<drainEnd, dpc>>
    /\ UNCHANGED <<snap, queueAtStart, arrivals, camera_lock, tether_running,
                   io_error_counter>>
    /\ UNCHANGED notDrain

\* wait_for_event raises; the event it was about to deliver is lost or
\* stays at the device
DrainRaise ==
    /\ dpc = "wait"
    /\ events' \in {events} \cup (IF events = <<>> THEN {} ELSE {Tail(events)})
    /\ drainEnd' = "raised"
    /\ dpc' = "capture"
    /\ io_error_counter' = drain_raise_counter(io_error_counter)
    /\ UNCHANGED <<snap, consumed, queueAtStart, arrivals, pending_downloads,
                   camera_lock, tether_running>>
    /\ UNCHANGED notDrain

\* gp_camera_capture_preview and the end of the with block: the frame, or
\* -110 and the next attempt
DrainCapture ==
    /\ dpc = "capture"
    /\ camera_lock' = "free"
    /\ \/ /\ io_error_counter' = counter_after_capture(io_error_counter)
          /\ dpc' = "downloads"
          /\ UNCHANGED <<snap, drainEnd, consumed, queueAtStart>>
       \/ /\ io_error_counter < io_error_threshold
          /\ io_error_counter' = io_error_counter + 1
          /\ dpc' = "idle"
          /\ DrainIdleGhosts
    /\ UNCHANGED <<events, arrivals, pending_downloads, tether_running>>
    /\ UNCHANGED notDrain

\* another thread's _download_file: with self.camera_lock: ... file_get
DrainOtherAcquire ==
    /\ lock_acquirable(camera_lock)
    /\ camera_lock' = "other"
    /\ UNCHANGED <<drainVars, pending_downloads, tether_running,
                   io_error_counter>>
    /\ UNCHANGED notDrain

DrainOtherRelease ==
    /\ camera_lock = "other"
    /\ camera_lock' = "free"
    /\ UNCHANGED <<drainVars, pending_downloads, tether_running,
                   io_error_counter>>
    /\ UNCHANGED notDrain

\* _process_pending_downloads: the queue is taken over and emptied
DrainDownloads ==
    /\ dpc = "downloads"
    /\ pending_downloads' = <<>>
    /\ dpc' = "idle"
    /\ DrainIdleGhosts
    /\ UNCHANGED <<events, arrivals, camera_lock, tether_running,
                   io_error_counter>>
    /\ UNCHANGED notDrain

(***************************************************************************)
(* The cursor of the preview cache under threads.                          *)
(*                                                                         *)
(* The key handler navigates, a processing thread replaces an image, and   *)
(* _hide_preview (key handler or preview timer) calls reset_to_live_view.  *)
(* `self._current_index -= 1` is a load and a store.                       *)
(***************************************************************************)
NavDirs == {"previous", "next"}
NavIdle == [pc |-> "idle", dir |-> "previous"]

CursorInit ==
    /\ cache_lock = "free"
    /\ upc = NavIdle
    /\ utmp = 0
    /\ ipc = "idle"
    /\ lastWriter = "none"


\* a cache of max_cache_size images with the cursor on the newest
CacheFull ==
    /\ cache = [i \in 1..max_cache_size |-> CachedImage(i, "jpg", "jpeg")]
    /\ current_index = max_cache_size - 1
    /\ loaded = TRUE
    /\ lastOp = "init"
    /\ lastRet = None
    /\ preview_callback = FALSE
    /\ lastIns = NoIns
    /\ navDir = "none"
    /\ navCount = 0
    /\ navStart = -1

\* a loaded cache with room for one more image and the callback of the GUI
\* registered
CacheRoom ==
    /\ cache = [i \in 1..(max_cache_size - 1) |-> CachedImage(i, "jpg", "jpeg")]
    /\ current_index = max_cache_size - 2
    /\ loaded = TRUE
    /\ lastOp = "init"
    /\ lastRet = None
    /\ preview_callback = TRUE
    /\ lastIns = NoIns
    /\ navDir = "none"
    /\ navCount = 0
    /\ navStart = -1

\* navigate_previous / navigate_next: with self._cache_lock:
NavAcquire ==
    /\ upc.pc = "idle"
    /\ cache_lock = "free"
    /\ cache_lock' = "nav"
    /\ \E d \in NavDirs : upc' = [pc |-> "load", dir |-> d]
    /\ UNCHANGED <<current_index, utmp, ipc, lastWriter>>
    /\ UNCHANGED cache
    /\ UNCHANGED notCursor

\* self._current_index -= 1 (+= 1): the load
NavLoad ==
    /\ upc.pc = "load"
    /\ utmp' = current_index
    /\ upc' = [upc EXCEPT !.pc = "store"]
    /\ UNCHANGED <<current_index, cache_lock, ipc, lastWriter>>
    /\ UNCHANGED cache
    /\ UNCHANGED notCursor

\* self._current_index -= 1 (+= 1): the store
NavStore ==
    /\ upc.pc = "store"
    /\ current_index' = IF upc.dir = "previous" THEN utmp - 1 ELSE utmp + 1
    /\ lastWriter' = "nav"
    /\ upc' = [upc EXCEPT !.pc = "wrap"]
    /\ UNCHANGED <<utmp, cache_lock, ipc>>
    /\ UNCHANGED cache
    /\ UNCHANGED notCursor

\* if self._current_index < 0: self._current_index = len(self._cache) - 1
\* if self._current_index >= len(self._cache): self._current_index = 0
NavWrap ==
    /\ upc.pc = "wrap"
    /\ IF upc.dir = "previous" /\ current_index < 0
       THEN /\ current_index' = Len(cache) - 1
            /\ lastWriter' = "nav"
       ELSE IF upc.dir = "next" /\ current_index >= Len(cache)
       THEN /\ current_index' = 0
            /\ lastWriter' = "nav"
       ELSE UNCHANGED <<current_index, lastWriter>>
    /\ upc' = [upc EXCEPT !.pc = "return"]
    /\ UNCHANGED <<utmp, cache_lock, ipc>>
    /\ UNCHANGED cache
    /\ UNCHANGED notCursor

\* return self._cache[self._current_index], and the lock is released
NavReturn ==
    /\ upc.pc = "return"
    /\ utmp' = current_index
    /\ cache_lock' = "free"
    /\ upc' = [upc EXCEPT !.pc = "idle"]
    /\ UNCHANGED <<current_index, ipc, lastWriter>>
    /\ UNCHANGED cache
    /\ UNCHANGED notCursor

\* _replace_or_add_cached: with self._cache_lock:
InsAcquire ==
    /\ ipc = "idle"
    /\ cache_lock = "free"
    /\ cache_lock' = "ins"
    /\ ipc' = "assign"
    /\ UNCHANGED <<current_index, upc, utmp, lastWriter>>
    /\ UNCHANGED cache
    /\ UNCHANGED notCursor

\* the loop over the cache: a matching entry is replaced and the cursor set
\* with the lock kept for the callback; without a match the image is
\* appended, the cache trimmed and the lock released
InsAssign ==
    /\ ipc = "assign"
    /\ \E b \in Basenames :
          LET r == replace_or_add_cached(cache, CachedImage(b, "jpg", "jpeg"))
          IN /\ cache' = r.cache
             /\ current_index' = r.index
             /\ cache_lock' = IF r.replaced THEN cache_lock ELSE "free"
    /\ lastWriter' = "ins"
    /\ ipc' = "callback"
    /\ UNCHANGED <<upc, utmp>>
    /\ UNCHANGED notCursor

\* if self._preview_callback: self._preview_callback(cached), which is
\* _on_new_preview: with an event loop the display is scheduled on it,
\* without one _show_preview runs in this thread
InsCallback ==
    /\ ipc = "callback"
    /\ IF preview_callback
       THEN \E has_loop \in BOOLEAN :
               ipc' = IF has_loop THEN "return" ELSE "info"
       ELSE ipc' = "return"
    /\ UNCHANGED <<cache, current_index, cache_lock, upc, utmp, lastWriter>>
    /\ UNCHANGED notCursor

\* _show_preview: current, total = self._preview_manager.get_cache_info(),
\* which takes the cache lock for the read
InsInfo ==
    /\ ipc = "info"
    /\ cache_lock = "free"
    /\ ipc' = "return"
    /\ UNCHANGED <<cache, current_index, cache_lock, upc, utmp, lastWriter>>
    /\ UNCHANGED notCursor

\* the callback has returned; on the replace path the with block ends here
InsReturn ==
    /\ ipc = "return"
    /\ cache_lock' = IF cache_lock = "ins" THEN "free" ELSE cache_lock
    /\ ipc' = "idle"
    /\ UNCHANGED <<cache, current_index, upc, utmp, lastWriter>>
    /\ UNCHANGED notCursor

\* reset_to_live_view: self._current_index = -1
CursorReset ==
    /\ current_index' = -1
    /\ lastWriter' = "reset"
    /\ UNCHANGED <<cache_lock, upc, utmp, ipc>>
    /\ UNCHANGED cache
    /\ UNCHANGED notCursor

(***************************************************************************)
(* The pending map and its timers, for one basename.                       *)
(*                                                                         *)
(* Each entry starts a threading.Timer that nobody keeps a reference to.   *)
(* The download directory is shared with the operator and other programs:  *)
(* a file that was downloaded can be moved away.                           *)
(***************************************************************************)
NoEntry == 0
NoExpiry == [timer |-> 0, popped |-> 0, started |-> FALSE]

PendInit ==
    /\ pend_files = {}
    /\ pend_map = NoEntry
    /\ pend_timers = {}
    /\ pend_gen = 0
    /\ pend_notices = 0
    /\ pend_consumed = {}
    /\ pend_last = NoExpiry


\* an entry without a timer
timers_started_none(g) == {}

\* threading.Timer(self._pair_timeout, lambda bn=base_name:
\* self._clear_pending_raw(bn)).start()
timers_started(g) == {g}

\* a RAW file has been downloaded: process_downloaded_file(filepath, 'arw')
PendRawNotice ==
    /\ pend_notices < MaxPendNotices
    /\ pend_notices' = pend_notices + 1
    /\ pend_last' = NoExpiry
    /\ IF "jpg" \in pend_files
       THEN \* _find_jpeg_pair: process the JPEG, delete the RAW
            /\ pend_files' = pend_files \ {"raw"}
            /\ UNCHANGED <<pend_map, pend_timers, pend_gen>>
       ELSE \* self._pending_raw[base_name] = (filepath, now), the
            \* extraction thread and the timer
            /\ pend_files' = pend_files \cup {"raw"}
            /\ pend_gen' = pend_gen + 1
            /\ pend_map' = pend_gen'
            /\ pend_timers' = pend_timers \cup timers_started(pend_gen')
    /\ UNCHANGED pend_consumed
    /\ UNCHANGED notPend

\* a JPEG file has been downloaded: process_downloaded_file(filepath, 'jpg')
PendJpegNotice ==
    /\ pend_notices < MaxPendNotices
    /\ pend_notices' = pend_notices + 1
    /\ pend_last' = NoExpiry
    /\ IF pend_map # NoEntry
       THEN \* raw_path, _ = self._pending_raw.pop(base_name);
            \* _process_jpeg_file(filepath); _safe_delete(raw_path)
            /\ pend_consumed' = pend_consumed \cup {pend_map}
            /\ pend_map' = NoEntry
            /\ pend_files' = (pend_files \ {"raw"}) \cup {"jpg"}
       ELSE /\ pend_files' = pend_files \cup {"jpg"}
            /\ UNCHANGED <<pend_map, pend_consumed>>
    /\ UNCHANGED <<pend_timers, pend_gen>>
    /\ UNCHANGED notPend

\* _process_raw_file, started with the entry: the thumbnail is saved and the
\* RAW file deleted
PendRawExtracted ==
    /\ "raw" \in pend_files
    /\ pend_files' = pend_files \ {"raw"}
    /\ UNCHANGED <<pend_map, pend_timers, pend_gen, pend_notices,
                   pend_consumed, pend_last>>
    /\ UNCHANGED notPend

\* the JPEG leaves the download directory (moved or deleted by the operator
\* or an importing program): os.path.exists of _find_jpeg_pair turns false
PendJpegRemoved ==
    /\ "jpg" \in pend_files
    /\ pend_files' = pend_files \ {"jpg"}
    /\ UNCHANGED <<pend_map, pend_timers, pend_gen, pend_notices,
                   pend_consumed, pend_last>>
    /\ UNCHANGED notPend

\* the timer of entry g expires: _clear_pending_raw(base_name)
PendTimerFires(g) ==
    /\ g \in pend_timers
    /\ pend_timers' = pend_timers \ {g}
    /\ IF pend_map = NoEntry
       THEN \* if base_name not in self._pending_raw: return
            /\ pend_last' = [timer |-> g, popped |-> 0, started |-> FALSE]
            /\ UNCHANGED pend_map
       ELSE \* pop, and a _process_raw_file thread when the file exists
            /\ pend_last' = [timer |-> g, popped |-> pend_map,
                             started |-> "raw" \in pend_files]
            /\ pend_map' = NoEntry
    /\ UNCHANGED <<pend_files, pend_gen, pend_notices, pend_consumed>>
    /\ UNCHANGED notPend

(***************************************************************************)
(* The orientation of the live view across the operations of the handler.  *)
(***************************************************************************)
ValidOrientations ==
    {ORIENTATION_NORMAL, ORIENTATION_90, ORIENTATION_180, ORIENTATION_270}
OrientationCodes == 0..MaxCode
NoOrientOp == [name |-> "init", code |-> 0]

OrientInit ==
    /\ orientation = ORIENTATION_NORMAL
    /\ orient_op = NoOrientOp

\* set_orientation: assigns only one of the four ORIENTATION_* constants
set_orientation(old, orientation_code) ==
    IF orientation_code \in ValidOrientations THEN orientation_code ELSE old

\* release(): self.orientation = self.ORIENTATION_NORMAL
orientation_after_release(old) == ORIENTATION_NORMAL

\* the rotation buttons and the EXIF auto-rotation call set_orientation
OrientSet(code) ==
    /\ orientation' = set_orientation(orientation, code)
    /\ orient_op' = [name |-> "set_orientation", code |-> code]
    /\ UNCHANGED sessVars
    /\ UNCHANGED notOrient

\* connect(): a new session, or lost_device when init fails
OrientConnect(o) ==
    /\ camera' = IF o = "init_failed" THEN "uninit" ELSE "open"
    /\ lost_device' = (o # "connected")
    /\ orient_op' = [name |-> "connect", code |-> 0]
    /\ UNCHANGED <<orientation, io_error_counter, tether_running,
                   tether_callback>>
    /\ UNCHANGED notOrient

\* a capture that succeeds or fails with -110: the counter only
OrientCapture(o) ==
    /\ camera # "None"
    /\ o = "busy" => io_error_counter < io_error_threshold
    /\ io_error_counter' = IF o = "ok"
                           THEN counter_after_capture(io_error_counter)
                           ELSE io_error_counter + 1
    /\ orient_op' = [name |-> "capture", code |-> 0]
    /\ UNCHANGED <<orientation, camera, lost_device, tether_running,
                   tether_callback>>
    /\ UNCHANGED notOrient

\* _handle_capture_error for -52 or a fatal error: self.lost_device = True;
\* self.release()
OrientCaptureError ==
    /\ camera # "None"
    /\ release
    /\ orientation' = orientation_after_release(orientation)
    /\ orient_op' = [name |-> "error", code |-> 0]
    /\ UNCHANGED tether_callback
    /\ UNCHANGED notOrient

\* start_tether(callback)
OrientStartTether ==
    /\ ~tether_running
    /\ tether_running' = TRUE
    /\ tether_callback' = "process_downloaded_file"
    /\ orient_op' = [name |-> "start_tether", code |-> 0]
    /\ UNCHANGED <<orientation, camera, lost_device, io_error_counter>>
    /\ UNCHANGED notOrient

\* stop_tether()
OrientStopTether ==
    /\ tether_running
    /\ tether_running' = FALSE
    /\ orient_op' = [name |-> "stop_tether", code |-> 0]
    /\ UNCHANGED <<orientation, camera, lost_device, io_error_counter,
                   tether_callback>>
    /\ UNCHANGED notOrient

\* release(), called by the GUI when the device is lost or the window closes
OrientRelease ==
    /\ release
    /\ orientation' = orientation_after_release(orientation)
    /\ orient_op' = [name |-> "release", code |-> 0]
    /\ UNCHANGED tether_callback
    /\ UNCHANGED notOrient

(***************************************************************************)
(* The rate gate.                                                          *)
(*                                                                         *)
(* Time is counted in units of 10 ms.  The gate compares time.time() with  *)
(* _last_capture_ts, which is written after a successful capture only.     *)
(***************************************************************************)
\* CameraHandler._retry_delays = [0.0, 0.1, 0.5]
retry_delays == <<0, 10, 50>>

GateInit ==
    /\ gate_pc = "idle"
    /\ gate_attempt = 0
    /\ gate_sleep = 0
    /\ since_ts = TimeCap
    /\ since_call = TimeCap

\* elapsed = now - self._last_capture_ts
gate_elapsed(ts, call) == ts

\* 10 ms pass
GateTick ==
    /\ since_ts' = Min({since_ts + 1, TimeCap})
    /\ since_call' = Min({since_call + 1, TimeCap})
    /\ gate_sleep' = Max({gate_sleep - 1, 0})
    /\ UNCHANGED <<gate_pc, gate_attempt>>
    /\ UNCHANGED notGate

\* the frame loop calls get_frame_base64: the first attempt
GateCall ==
    /\ gate_pc = "idle"
    /\ gate_attempt' = 1
    /\ gate_pc' = "gate"
    /\ UNCHANGED <<gate_sleep, since_ts, since_call>>
    /\ UNCHANGED notGate

\* if elapsed < self._min_frame_interval:
\*     time.sleep(self._min_frame_interval - elapsed)
GateCheck ==
    /\ gate_pc = "gate"
    /\ LET elapsed == gate_elapsed(since_ts, since_call)
       IN  IF elapsed < min_frame_interval
           THEN /\ gate_sleep' = min_frame_interval - elapsed
                /\ gate_pc' = "sleep_gate"
           ELSE /\ gate_pc' = "capture"
                /\ UNCHANGED gate_sleep
    /\ UNCHANGED <<gate_attempt, since_ts, since_call>>
    /\ UNCHANGED notGate

\* the sleep of the gate is over
GateWake ==
    /\ gate_pc = "sleep_gate"
    /\ gate_sleep = 0
    /\ gate_pc' = "capture"
    /\ UNCHANGED <<gate_attempt, gate_sleep, since_ts, since_call>>
    /\ UNCHANGED notGate

\* gp_camera_capture_preview is sent to the device
GateCapture ==
    /\ gate_pc = "capture"
    /\ since_call' = 0
    /\ gate_pc' = "result"
    /\ UNCHANGED <<gate_attempt, gate_sleep, since_ts>>
    /\ UNCHANGED notGate

\* the capture returns: a frame (self._last_capture_ts = time.time()), -110
\* (time.sleep(delay); continue, or the round is used up), or a fatal error
\* (release() sets self._last_capture_ts = 0.0); after a call without a
\* frame the loop sleeps in _handle_frame_error
GateResult(o) ==
    /\ gate_pc = "result"
    /\ CASE o = "ok" ->
              /\ since_ts' = 0
              /\ gate_pc' = "idle"
              /\ gate_attempt' = 0
              /\ UNCHANGED gate_sleep
         [] o = "busy" /\ more_attempts(gate_attempt) ->
              /\ gate_sleep' = retry_delays[gate_attempt]
              /\ gate_pc' = "sleep_retry"
              /\ UNCHANGED <<gate_attempt, since_ts>>
         [] o = "busy" /\ ~more_attempts(gate_attempt) ->
              /\ gate_sleep' = retry_delays[gate_attempt] + frame_error_sleep
              /\ gate_pc' = "sleep_loop"
              /\ gate_attempt' = 0
              /\ UNCHANGED since_ts
         [] OTHER ->
              /\ since_ts' = IF o = "other" THEN since_ts ELSE TimeCap
              /\ gate_sleep' = frame_error_sleep
              /\ gate_pc' = "sleep_loop"
              /\ gate_attempt' = 0
    /\ UNCHANGED since_call
    /\ UNCHANGED notGate

\* time.sleep(delay) is over: continue with the next attempt
GateRetry ==
    /\ gate_pc = "sleep_retry"
    /\ gate_sleep = 0
    /\ gate_attempt' = gate_attempt + 1
    /\ gate_pc' = "gate"
    /\ UNCHANGED <<gate_sleep, since_ts, since_call>>
    /\ UNCHANGED notGate

\* the sleep of _handle_frame_error is over: the loop goes on
GateLoop ==
    /\ gate_pc = "sleep_loop"
    /\ gate_sleep = 0
    /\ gate_pc' = "idle"
    /\ UNCHANGED <<gate_attempt, gate_sleep, since_ts, since_call>>
    /\ UNCHANGED notGate

(***************************************************************************)
(* The frame threads.                                                      *)
(*                                                                         *)
(* _start_stream sets streaming_event and starts a new _frame_update_loop  *)
(* thread; the threads it started before are neither checked nor joined.   *)
(* The flag is cleared by _handle_camera_lost, _stop_stream and            *)
(* _handle_frame_error.                                                    *)
(***************************************************************************)
LoopIds == 1..MaxLoops
LoopUnborn == [pc |-> "unborn", stale |-> FALSE]
LoopRunning(l) == l.pc \in {"test", "call"}

LoopsInit == loops = [i \in LoopIds |-> LoopUnborn]

\* _start_stream: no look at self.frame_thread before a new thread is made
start_allowed(ls) == TRUE

\* _on_camera_detected (`not self.streaming_event.is_set()`) and
\* _start_stream: self.streaming_event.set(); threading.Thread(
\* target=self._frame_update_loop).start()
LoopStart ==
    /\ ~streaming_event
    /\ start_allowed(loops)
    /\ \E i \in LoopIds :
          /\ loops[i].pc = "unborn"
          /\ \A j \in LoopIds : j < i => loops[j].pc # "unborn"
          /\ loops' = [loops EXCEPT ![i].pc = "test"]
    /\ streaming_event' = TRUE
    /\ UNCHANGED notLoops

\* _handle_camera_lost or _stop_stream: self.streaming_event.clear()
LoopStop ==
    /\ streaming_event
    /\ streaming_event' = FALSE
    /\ loops' = [i \in LoopIds |->
                    IF LoopRunning(loops[i])
                    THEN [loops[i] EXCEPT !.stale = TRUE] ELSE loops[i]]
    /\ UNCHANGED notLoops

\* while self.streaming_event.is_set():
LoopTest(i) ==
    /\ loops[i].pc = "test"
    /\ loops' = [loops EXCEPT ![i].pc =
                    IF streaming_event THEN "call" ELSE "ended"]
    /\ UNCHANGED streaming_event
    /\ UNCHANGED notLoops

\* one iteration: get_frame_base64, and _handle_frame_error when there is
\* no frame, which returns False after its sleep
LoopIterate(i) ==
    /\ loops[i].pc = "call"
    /\ loops' = [loops EXCEPT ![i].pc = "test"]
    /\ UNCHANGED streaming_event
    /\ UNCHANGED notLoops

\* _handle_frame_error returns True: self.streaming_event.clear(); break
LoopBreak(i) ==
    /\ loops[i].pc = "call"
    /\ streaming_event' = FALSE
    /\ loops' = [j \in LoopIds |->
                    IF j = i THEN [loops[j] EXCEPT !.pc = "ended"]
                    ELSE IF LoopRunning(loops[j])
                    THEN [loops[j] EXCEPT !.stale = TRUE] ELSE loops[j]]
    /\ UNCHANGED notLoops

(***************************************************************************)
(* The list of queued downloads under several frame loops.                 *)
(*                                                                         *)
(* self._pending_downloads is a list object; the drain appends to the      *)
(* object the attribute refers to, under the device lock, and              *)
(* _process_pending_downloads, outside the lock, first binds the object to *)
(* its local `downloads`, then rebinds the attribute to a new empty list   *)
(* and iterates the old object.  _start_stream can leave more than one     *)
(* frame loop running on the handler.                                      *)
(***************************************************************************)
Takers == 1..MaxTakers
TakerIdle == [pc |-> "idle", ref |-> 0, pos |-> 0]

\* one frame loop, an empty list, nothing announced
TakeInit ==
    /\ dl_shots = 0
    /\ dl_dev = 0
    /\ dl_lists = << <<>> >>
    /\ dl_ref = 1
    /\ takers = [t \in Takers |-> TakerIdle]
    /\ dl_handed = <<>>
    /\ dl_loops = 1

\* the numbers from a to b in order
RECURSIVE Range(_, _)
Range(a, b) == IF a > b THEN <<>> ELSE <<a>> \o Range(a + 1, b)

\* the camera announces a new file
TakeShot ==
    /\ dl_shots < MaxShots
    /\ dl_shots' = dl_shots + 1
    /\ dl_dev' = dl_dev + 1
    /\ UNCHANGED <<dl_lists, dl_ref, takers, dl_handed, dl_loops>>
    /\ UNCHANGED notTake

\* one capture attempt under the device lock: _poll_events_unlocked appends
\* a notice per file-added event to self._pending_downloads, then the
\* capture succeeds or raises
TakeAttempt(t) ==
    /\ t <= dl_loops
    /\ takers[t].pc = "idle"
    /\ dl_lists' = [dl_lists EXCEPT ![dl_ref] =
                       @ \o Range(dl_shots - dl_dev + 1, dl_shots)]
    /\ dl_dev' = 0
    /\ \E ok \in BOOLEAN :
          takers' = [takers EXCEPT ![t].pc = IF ok THEN "check" ELSE "idle"]
    /\ UNCHANGED <<dl_shots, dl_ref, dl_handed, dl_loops>>
    /\ UNCHANGED notTake

\* _process_pending_downloads: if not self._pending_downloads: return
TakeCheck(t) ==
    /\ takers[t].pc = "check"
    /\ takers' = [takers EXCEPT ![t].pc =
                     IF dl_lists[dl_ref] = <<>> THEN "idle" ELSE "bind"]
    /\ UNCHANGED <<dl_shots, dl_dev, dl_lists, dl_ref, dl_handed, dl_loops>>
    /\ UNCHANGED notTake

\* downloads = self._pending_downloads
TakeBind(t) ==
    /\ takers[t].pc = "bind"
    /\ takers' = [takers EXCEPT ![t] = [pc |-> "rebind", ref |-> dl_ref,
                                        pos |-> 0]]
    /\ UNCHANGED <<dl_shots, dl_dev, dl_lists, dl_ref, dl_handed, dl_loops>>
    /\ UNCHANGED notTake

\* self._pending_downloads = []
TakeRebind(t) ==
    /\ takers[t].pc = "rebind"
    /\ dl_lists' = Append(dl_lists, <<>>)
    /\ dl_ref' = Len(dl_lists) + 1
    /\ takers' = [takers EXCEPT ![t].pc = "iterate"]
    /\ UNCHANGED <<dl_shots, dl_dev, dl_handed, dl_loops>>
    /\ UNCHANGED notTake

\* for folder, filename in downloads: path = self._download_file(...)
TakeDownload(t) ==
    /\ takers[t].pc = "iterate"
    /\ takers[t].pos < Len(dl_lists[takers[t].ref])
    /\ dl_handed' = Append(dl_handed, dl_lists[takers[t].ref][takers[t].pos + 1])
    /\ takers' = [takers EXCEPT ![t].pos = @ + 1]
    /\ UNCHANGED <<dl_shots, dl_dev, dl_lists, dl_ref, dl_loops>>
    /\ UNCHANGED notTake

\* the for loop has reached the end of the list
TakeDone(t) ==
    /\ takers[t].pc = "iterate"
    /\ takers[t].pos >= Len(dl_lists[takers[t].ref])
    /\ takers' = [takers EXCEPT ![t] = TakerIdle]
    /\ UNCHANGED <<dl_shots, dl_dev, dl_lists, dl_ref, dl_handed, dl_loops>>
    /\ UNCHANGED notTake

\* the step-level models at rest
StepIdle == DrainInit /\ CursorInit /\ PendInit /\ OrientInit /\ GateInit /\ LoopsInit
    /\ TakeInit

(***************************************************************************)
(* Specifications                                                          *)
(***************************************************************************)
TrimSpecInit ==
    TrimInit /\ CacheInit /\ PairIdle /\ CamInit /\ LockInit /\ WatcherInit /\ StepIdle
TrimNext == TrimToEoi
SpecTrim == TrimSpecInit /\ [][TrimNext]_vars

CacheSpecInit ==
    CacheInit /\ TrimIdle /\ PairIdle /\ CamInit /\ LockInit /\ WatcherInit /\ StepIdle
CacheNext ==
    \/ CleanupDownloadFolder
    \/ InsertImage
    \/ GetLatestPreview
    \/ NavigatePrevious
    \/ NavigateNext
    \/ ResetToLiveView
    \/ SetPreviewCallback
SpecCache == CacheSpecInit /\ [][CacheNext]_vars

PairSpecInit ==
    PairInit /\ CacheInit /\ TrimIdle /\ CamInit /\ LockInit /\ WatcherInit /\ StepIdle
PairNext ==
    \/ NoticeArrives
    \/ ProcessDownloadedFile
    \/ PopPending
    \/ JpegSave
    \/ JpegCache
    \/ DeleteRawAfterJpeg
    \/ RawExtract
    \/ RawSave
    \/ RawCache
    \/ RawDelete
    \/ TimerFires
    \/ TimerPop
    \/ TimerSpawn
SpecPair == PairSpecInit /\ [][PairNext]_vars

CamSpecInit ==
    CamInit /\ TrimIdle /\ CacheInit /\ PairIdle /\ LockInit /\ WatcherInit /\ StepIdle
CamNext ==
    \/ FileAdded
    \/ WatchPoll
    \/ WatchInit
    \/ WatchDetected
    \/ WatchTether
    \/ MainCameraLost
    \/ MainStartStream
    \/ MainStartStreamInit
    \/ MainStartStreamRun
    \/ FrameLoop
    \/ GetFrame
    \/ AcquireAndPoll
    \/ Capture
    \/ Copy
    \/ Downloads
    \/ Download
    \/ Success
    \/ ProcessFrame
    \/ Exhausted
    \/ ErrRelease
    \/ ErrCallback
    \/ FrameError
SpecCam == CamSpecInit /\ [][CamNext]_vars

\* several frame loops calling get_frame_base64 on a streaming session
LockSpecInit ==
    CamStreaming /\ LockInit /\ TrimIdle /\ CacheInit /\ PairIdle /\ WatcherInit /\ StepIdle
LockNext ==
    \/ LockFileAdded
    \/ \E t \in Callers : CallerCall(t)
    \/ \E t \in Callers : CallerAcquire(t)
    \/ \E t \in Callers : CallerDrain(t)
    \/ \E t \in Callers : CallerDrained(t)
    \/ \E t \in Callers : CallerCapture(t)
    \/ \E t \in Callers : CallerCaptured(t)
    \/ \E t \in Callers : CallerTakeDownloads(t)
    \/ \E t \in Callers : CallerDownloadAcquire(t)
    \/ \E t \in Callers : CallerDownload(t)
    \/ \E t \in Callers : CallerDownloaded(t)
SpecLock == LockSpecInit /\ [][LockNext]_vars

\* the watcher as start_watch and stop_watch drive it
WatchSpecInit ==
    CamInit /\ WatcherInit /\ TrimIdle /\ CacheInit /\ PairIdle /\ LockInit /\ StepIdle
WatchNext ==
    \/ StartWatch
    \/ StopWatch
    \/ StopWatchReturns
    \/ \E i \in WatcherIds : WatchLoopTest(i)
    \/ \E i \in WatcherIds : WatchLoopBody(i)
    \/ \E i \in WatcherIds : WatchLoopConnect(i)
    \/ \E i \in WatcherIds : WatchLoopSleep(i)
    \/ WatchedRelease
SpecWatch == WatchSpecInit /\ [][WatchNext]_vars

\* the event drain step by step, on a connected streaming session
DrainSpecInit ==
    CamStreaming /\ LockInit /\ TrimIdle /\ CacheInit /\ PairIdle
    /\ WatcherInit /\ DrainInit /\ CursorInit /\ PendInit /\ OrientInit /\ GateInit /\ LoopsInit
    /\ TakeInit
DrainNext ==
    \/ DrainEventArrives
    \/ DrainStartTether
    \/ DrainStopTether
    \/ DrainAcquire
    \/ DrainEnter
    \/ DrainWait
    \/ DrainRaise
    \/ DrainCapture
    \/ DrainOtherAcquire
    \/ DrainOtherRelease
    \/ DrainDownloads
SpecDrain == DrainSpecInit /\ [][DrainNext]_vars
\* the capturing thread is scheduled: a wait_for_event(0) that is due returns
SpecDrainFair == SpecDrain /\ WF_vars(DrainWait \/ DrainRaise)

\* navigation, replacement and reset on a loaded cache
CursorSpecInit ==
    (CacheFull \/ CacheRoom) /\ TrimIdle /\ PairIdle /\ CamInit /\ LockInit
    /\ WatcherInit /\ DrainInit /\ CursorInit /\ PendInit /\ OrientInit /\ GateInit /\ LoopsInit
    /\ TakeInit
CursorNext ==
    \/ NavAcquire
    \/ NavLoad
    \/ NavStore
    \/ NavWrap
    \/ NavReturn
    \/ InsAcquire
    \/ InsAssign
    \/ InsCallback
    \/ InsInfo
    \/ InsReturn
    \/ CursorReset
SpecCursor == CursorSpecInit /\ [][CursorNext]_vars

\* the pending map of one basename
PendSpecInit ==
    CacheInit /\ TrimIdle /\ PairIdle /\ CamInit /\ LockInit /\ WatcherInit
    /\ DrainInit /\ CursorInit /\ PendInit /\ OrientInit /\ GateInit /\ LoopsInit
    /\ TakeInit
PendNext ==
    \/ PendRawNotice
    \/ PendJpegNotice
    \/ PendRawExtracted
    \/ PendJpegRemoved
    \/ \E g \in 1..MaxPendNotices : PendTimerFires(g)
SpecPend == PendSpecInit /\ [][PendNext]_vars
\* a threading.Timer that was started runs its function
SpecPendFair ==
    SpecPend /\ WF_vars(\E g \in 1..MaxPendNotices : PendTimerFires(g))

\* the operations of the handler in any order
OrientSpecInit ==
    CamInit /\ TrimIdle /\ CacheInit /\ PairIdle /\ LockInit /\ WatcherInit
    /\ DrainInit /\ CursorInit /\ PendInit /\ OrientInit /\ GateInit /\ LoopsInit
    /\ TakeInit
OrientNext ==
    \/ \E code \in OrientationCodes : OrientSet(code)
    \/ \E o \in ConnectOutcomes : OrientConnect(o)
    \/ \E o \in {"ok", "busy"} : OrientCapture(o)
    \/ OrientCaptureError
    \/ OrientStartTether
    \/ OrientStopTether
    \/ OrientRelease
SpecOrient == OrientSpecInit /\ [][OrientNext]_vars

\* the frame loop against the clock
GateSpecInit ==
    CamInit /\ TrimIdle /\ CacheInit /\ PairIdle /\ LockInit /\ WatcherInit
    /\ StepIdle
GateNext ==
    \/ GateTick
    \/ GateCall
    \/ GateCheck
    \/ GateWake
    \/ GateCapture
    \/ \E o \in CaptureOutcomes : GateResult(o)
    \/ GateRetry
    \/ GateLoop
SpecGate == GateSpecInit /\ [][GateNext]_vars

\* starts and stops of the stream
LoopsSpecInit ==
    CamInit /\ TrimIdle /\ CacheInit /\ PairIdle /\ LockInit /\ WatcherInit
    /\ StepIdle
LoopsNext ==
    \/ LoopStart
    \/ LoopStop
    \/ \E i \in LoopIds : LoopTest(i)
    \/ \E i \in LoopIds : LoopIterate(i)
    \/ \E i \in LoopIds : LoopBreak(i)
SpecLoops == LoopsSpecInit /\ [][LoopsNext]_vars

\* the frame loops of a streaming handler take the list of queued downloads
TakeSpecInit ==
    /\ CamInit /\ TrimIdle /\ CacheInit /\ PairIdle /\ LockInit /\ WatcherInit
    /\ DrainInit /\ CursorInit /\ PendInit /\ OrientInit /\ GateInit
    /\ LoopsInit
    /\ dl_shots = 0
    /\ dl_dev = 0
    /\ dl_lists = << <<>> >>
    /\ dl_ref = 1
    /\ takers = [t \in Takers |-> TakerIdle]
    /\ dl_handed = <<>>
    /\ dl_loops \in Takers
TakeNext ==
    \/ TakeShot
    \/ \E t \in Takers : TakeAttempt(t)
    \/ \E t \in Takers : TakeCheck(t)
    \/ \E t \in Takers : TakeBind(t)
    \/ \E t \in Takers : TakeRebind(t)
    \/ \E t \in Takers : TakeDownload(t)
    \/ \E t \in Takers : TakeDone(t)
SpecTake == TakeSpecInit /\ [][TakeNext]_vars

(***************************************************************************)
(* Claims about the Frame Normalizer (checked under SpecTrim)              *)
(***************************************************************************)
\* the buffer holds an EOI marker at some offset >= 2
HasEoiFrom2(d) ==
    \E i \in 2..(Len(d) - 2) : d[i + 1] = 255 /\ d[i + 2] = 217

\* the buffer starts with the two bytes FF D8
StartsWithSoi(d) ==
    Len(d) >= 2 /\ d[1] = 255 /\ d[2] = 216

\* C5: a buffer shorter than 4 bytes, or not starting with SOI (FF D8) at
\* offset 0, or with no EOI (FF D9) at or after offset 2, is rejected: the
\* normalizer returns None.
C5_RejectsMalformed ==
    (trimPc = "done" /\ trimIn.isBytes
        /\ (\/ Len(trimIn.data) < 4
            \/ ~StartsWithSoi(trimIn.data)
            \/ ~HasEoiFrom2(trimIn.data)))
    => trimOut = None

\* a buffer of at least 4 bytes with an EOI but no SOI has been rejected
C5_Witness ==
    /\ trimPc = "done"
    /\ trimIn.isBytes
    /\ Len(trimIn.data) >= 4
    /\ ~StartsWithSoi(trimIn.data)
    /\ HasEoiFrom2(trimIn.data)
    /\ trimOut = None

\* C6: for a buffer that starts with SOI and holds an EOI, the normalizer returns
\* the prefix that ends with the last EOI: the result is a prefix of the input,
\* starts with SOI, ends with EOI, and no EOI of the input starts after the
\* result's own (every byte after the last EOI is dropped, none before it is).
C6_TrimsToLastEoi ==
    (trimPc = "done" /\ trimIn.isBytes
        /\ StartsWithSoi(trimIn.data) /\ HasEoiFrom2(trimIn.data))
    => LET d == trimIn.data
           r == trimOut.data
           n == Len(r)
       IN /\ trimOut.ok
          /\ n >= 4 /\ n <= Len(d)
          /\ \A i \in 1..n : r[i] = d[i]
          /\ r[1] = 255 /\ r[2] = 216
          /\ r[n - 1] = 255 /\ r[n] = 217
          /\ \A j \in n..(Len(d) - 1) : ~(d[j] = 255 /\ d[j + 1] = 217)

\* a buffer with two EOI markers and trailing bytes has been trimmed
C6_Witness ==
    /\ trimPc = "done"
    /\ trimIn.isBytes
    /\ StartsWithSoi(trimIn.data)
    /\ \E i, j \in 2..(Len(trimIn.data) - 2) :
          /\ i < j
          /\ SubSeq(trimIn.data, i + 1, i + 2) = EOI
          /\ SubSeq(trimIn.data, j + 1, j + 2) = EOI
    /\ trimOut.ok
    /\ Len(trimOut.data) < Len(trimIn.data)

(***************************************************************************)
(* Claims about cache navigation (checked under SpecCache)                 *)
(***************************************************************************)
\* a run of exactly k = len(cache) consecutive calls in one direction is complete
NavRunComplete ==
    navDir \in {"next", "prev"} /\ Len(cache) >= 1 /\ navCount = Len(cache)

\* C9 as stated: after k consecutive navigate_next() (or navigate_previous())
\* calls on a cache of k >= 1 entries the cursor is back at its starting value,
\* for every starting value including the live-view value -1.
C9_AsStated ==
    NavRunComplete => current_index = navStart

\* C9 amended: the same for every starting cursor that is an index 0..k-1.
C9_NavCycle ==
    (NavRunComplete /\ navStart \in 0..(Len(cache) - 1))
    => current_index = navStart

\* from the live-view cursor -1 the run ends on an entry, never back on -1:
\* k calls of navigate_next end on the newest entry, k of navigate_previous on
\* the oldest
C9_FromLiveView ==
    (NavRunComplete /\ navStart = -1)
    => current_index = (IF navDir = "next" THEN Len(cache) - 1 ELSE 0)

\* a complete run of navigate_next over at least two entries, started on an entry
C9_Witness ==
    /\ NavRunComplete
    /\ navDir = "next"
    /\ Len(cache) >= 2
    /\ navStart = 1
    /\ current_index = 1

\* C10: on a non-empty cache get_latest_preview moves the cursor to the newest
\* entry; navigate_previous moves it one entry back and from the oldest entry
\* (and from live view) to the newest; navigate_next moves it one entry forward
\* and from the newest entry to the oldest (from live view to the oldest too);
\* each returns the entry at the new cursor and leaves the entries alone. On an
\* empty cache all three return None and change neither cursor nor cache.
C10_Navigation ==
    [][ /\ lastOp' \in {"latest", "prev", "next"} => cache' = cache
        /\ (lastOp' \in {"latest", "prev", "next"} /\ cache = <<>>)
              => (lastRet' = None /\ current_index' = current_index)
        /\ (lastOp' \in {"latest", "prev", "next"} /\ cache # <<>>)
              => /\ current_index' \in 0..(Len(cache) - 1)
                 /\ lastRet' = Some(cache[current_index' + 1])
        /\ (lastOp' = "latest" /\ cache # <<>>)
              => current_index' = Len(cache) - 1
        /\ (lastOp' = "prev" /\ cache # <<>>)
              => current_index' = (IF current_index >= 1
                                   THEN current_index - 1
                                   ELSE Len(cache) - 1)
        /\ (lastOp' = "next" /\ cache # <<>>)
              => current_index' = (IF current_index < Len(cache) - 1
                                   THEN current_index + 1
                                   ELSE 0)
      ]_vars

\* navigate_previous has wrapped from the oldest entry to the newest
C10_Witness ==
    /\ lastOp = "prev"
    /\ Len(cache) >= 2
    /\ navDir = "prev" /\ navCount = 1 /\ navStart = 0
    /\ current_index = Len(cache) - 1
    /\ lastRet = Some(cache[Len(cache)])

\* the step is a call of _replace_or_add_cached with image lastIns'.img
IsInsert == lastOp' = "insert"

\* C11: inserting an image whose basename matches an existing entry keeps the
\* cache size, overwrites the (first) matching entry at its position, leaves
\* every other entry where it was and sets the cursor to that position.
C11_ReplaceInPlace ==
    [][ (IsInsert /\ FindBase(cache, lastIns'.img.base) # 0)
        => LET i == FindBase(cache, lastIns'.img.base)
           IN /\ Len(cache') = Len(cache)
              /\ cache'[i] = lastIns'.img
              /\ \A j \in 1..Len(cache) : j # i => cache'[j] = cache[j]
              /\ current_index' = i - 1
              /\ lastIns'.replaced
      ]_vars

\* an entry that is not the newest one has just been replaced by an image
\* made from something else
C11_Witness ==
    /\ lastOp = "insert"
    /\ lastIns.replaced
    /\ Len(cache) >= 2
    /\ current_index < Len(cache) - 1
    /\ cache[current_index + 1] = lastIns.img
    /\ lastIns.img.origin = "thumb"

\* C12: inserting an image with a new basename into a cache of exactly
\* max_cache_size entries evicts the oldest entry only, appends the image as
\* newest, leaves the size at max_cache_size and moves the cursor to the image.
C12_EvictsOldest ==
    [][ (IsInsert /\ FindBase(cache, lastIns'.img.base) = 0
                  /\ Len(cache) = max_cache_size)
        => /\ cache' = Append(Tail(cache), lastIns'.img)
           /\ Len(cache') = max_cache_size
           /\ current_index' = max_cache_size - 1
           /\ lastIns'.evicted = 1
      ]_vars

\* a new basename has just pushed the oldest entry out of a full cache
C12_Witness ==
    /\ lastOp = "insert"
    /\ ~lastIns.replaced
    /\ lastIns.evicted = 1
    /\ Len(cache) = max_cache_size
    /\ cache[Len(cache)] = lastIns.img
    /\ current_index = max_cache_size - 1

\* C13: the cache never holds more than max_cache_size entries, whatever
\* startup load, inserts, replacements and navigation calls have happened.
C13_CacheBounded ==
    Len(cache) <= max_cache_size

\* every path other than the startup load keeps the bound: a cache within the
\* bound stays within it under inserts, replacements and navigation
C13_BoundKeptAfterLoad ==
    [][ (lastOp' # "load" /\ Len(cache) <= max_cache_size)
        => Len(cache') <= max_cache_size ]_vars

\* C14: reset_to_live_view sets the cursor to -1 and leaves the cache entries,
\* their number and their order as they were.
C14_ResetKeepsCache ==
    [][ lastOp' = "reset" => (current_index' = -1 /\ cache' = cache) ]_vars

\* reset_to_live_view has just taken the cursor off an entry of a non-empty
\* cache
C14_Witness ==
    /\ lastOp = "reset"
    /\ cache # <<>>
    /\ current_index = -1

\* C15: whenever the cache inserts or replaces entries (by JPEG or RAW
\* thumbnail processing or by the startup load) while a preview callback is
\* registered, the callback is invoked once for each of them, with the image.
C15_AsStated ==
    lastIns.registered =>
        /\ lastIns.calls = lastIns.inserted
        /\ lastIns.inserted = 1 => lastIns.arg = lastIns.img

\* C15 amended: every insert or replacement made by _replace_or_add_cached
\* (JPEG processing, RAW thumbnail processing) while a callback is registered
\* invokes it exactly once with the new image; the startup load invokes it for
\* none of the entries it appends.
C15_CallbackPerInsert ==
    /\ (lastOp = "insert" /\ lastIns.registered)
          => (lastIns.calls = 1 /\ lastIns.arg = lastIns.img)
    /\ lastOp = "load" => lastIns.calls = 0

\* an entry has just been replaced with a callback registered, and the
\* callback got the new image
C15_Witness ==
    /\ lastOp = "insert"
    /\ lastIns.registered
    /\ lastIns.replaced
    /\ lastIns.calls = 1
    /\ lastIns.arg = lastIns.img

(***************************************************************************)
(* Claims about RAW/JPEG pairing (checked under SpecPair)                  *)
(***************************************************************************)
\* process_downloaded_file has returned and no extraction thread or pairing
\* timer is left
Quiescent ==
    npc = "idle" /\ rawThreads = EmptyBag /\ timers = EmptyBag

\* the cache indexes of the entries with this basename
EntriesOf(b) == {i \in 1..Len(cache) : cache[i].base = b}

\* exactly one entry for the basename, built by the given processing path, and
\* the persisted <base>.jpg written by the same path
OneEntryFrom(b, origin) ==
    /\ Cardinality(EntriesOf(b)) = 1
    /\ \A i \in EntriesOf(b) : cache[i].origin = origin
    /\ persisted[b] = origin

\* the history is: one RAW notice without a sibling on disk, then the (readable)
\* JPEG of the same basename, processed before the pairing timer fired; the
\* extraction thread, the timer and process_downloaded_file have all finished
PairDone ==
    /\ scen = "pair"
    /\ Quiescent
    /\ disk[<<scenBase, "jpg">>] = "good"

\* C7: after a RAW notice followed within the pairing timeout by its JPEG
\* sibling, once extraction thread, pairing timer and JPEG processing have
\* finished, the cache holds exactly one entry for the basename, entry and
\* persisted .jpg come from the JPEG and not from the RAW thumbnail, and the RAW
\* file is gone from disk.
C7_PairPrefersJpeg ==
    PairDone
    => /\ OneEntryFrom(scenBase, "jpeg")
       /\ disk[<<scenBase, "raw">>] = "absent"

\* the history is: one RAW notice without a sibling, the pairing timer has fired,
\* no other notice came; all work is done
RawOnlyDone ==
    /\ scen = "raw_timeout"
    /\ Quiescent

C8_BothExtractions ==
    /\ scen = "raw_timeout"
    /\ \E t1, t2 \in BagToSet(rawThreads) :
          /\ t1.base = scenBase /\ t2.base = scenBase
          /\ (t1 # t2 \/ CopiesIn(t1, rawThreads) >= 2)

(***************************************************************************)
(* Claims about CameraHandler, checked under SpecCam                       *)
\* C17: the cache layer never raises upward: process_downloaded_file completes
\* without raising for every file and under every interleaving of the notice
\* path with the pairing-timeout callbacks on the shared pending-RAW map.
C17_NeverRaises == raised = FALSE

(***************************************************************************)
\* C1: once the lost flag is true, no preview-capture call and no
\* file-download call is issued to the device until a connect() succeeds:
\* every device call the frame loop issues is issued with lost_device false.
C1_NoCallWhileLost ==
    lastCall.op # "none" => ~lastCall.lost

\* C2: when the run of consecutive -110 capture failures reaches the
\* threshold the session is marked lost, and no capture attempt is issued
\* with the run at or above the threshold until connect() is called again
\* (connect() restarts the run).
C2_ThresholdStopsCapture ==
    /\ (busyRun >= io_error_threshold /\ camera # "None") => lost_device
    /\ lastCall.op = "capture" => lastCall.run < io_error_threshold

\* the handler is past the code that deals with a loss: the lost flag is
\* set, the session released and the callback, if any, invoked
LossHandled == fpc \notin {"err_release", "err_callback"}

\* C3: for every transition into the lost state by a device-not-found error,
\* a fatal error or the counter crossing the threshold, the disconnect
\* callback has been invoked exactly once when the handler is done with it.
C3_CallbackOncePerLoss ==
    (lastLoss \in {"notfound", "fatal", "threshold"} /\ LossHandled)
        => lossCb = 1

\* a loss by the threshold is never followed by a disconnect callback
C3_ThresholdNeverNotifies ==
    lastLoss = "threshold" => lossCb = 0

\* the frame loop holds preview data a capture has handed back
HoldsFrame == fpc \in {"downloads", "download", "success", "process"}

\* C4: the frame bytes a capture returns are a copy taken with the device
\* lock held, and they still are what the capture returned whatever the
\* driver has done to its buffer since.
C4_FrameIsCopy ==
    HoldsFrame =>
        /\ copyTaken # "unlocked"
        /\ Content(frame_data) = capturedVal

\* a copied frame is about to be encoded after a download has reused the
\* driver's buffer
C4_Witness ==
    /\ fpc = "process"
    /\ copyTaken = "locked"
    /\ lastCall.op = "download"
    /\ driverBuf # capturedVal

C20_AsStated ==
    [][ (fpc = "capture" /\ fpc' # fpc /\ camera # "None") => ~tornDown ]_vars

\* the first three parts of C20: the failing attempt ends the retry round,
\* release() clears the handle and the callback is invoked once before the
\* call returns
C20_TeardownInCall ==
    [][ /\ (fpc = "capture" /\ tornDown' /\ ~tornDown)
            => (fpc' = "err_release" /\ attempt' = 0)
        /\ (fpc = "err_release" /\ fpc' # fpc)
            => (camera' = "None" /\ fpc' = "err_callback")
        /\ (fpc = "err_callback" /\ fpc' # fpc)
            => (lossCb' = lossCb + 1 /\ frameCall'.ret = "nothing")
      ]_vars


(***************************************************************************)
(* Claims about the device lock (SpecLock) and the watcher (SpecWatch)     *)
(***************************************************************************)
\* C18: preview capture, event drain and file download are mutually
\* exclusive on the device: in no reachable state are two of these driver
\* operations in flight at the same time, whatever threads issue them.
C18_OneDriverOperation ==
    /\ Cardinality(inFlight) <= 1
    /\ inFlight # {} => camera_lock = "frame"

\* one thread downloads while another, inside get_frame_base64, waits at the
\* lock for its capture
C18_Witness ==
    \E t, u \in Callers :
        /\ t # u
        /\ inFlight = {<<t, "download">>}
        /\ callers[u].pc = "lock"

\* C19: after stop_watch() has raised the stop signal the watcher loop
\* terminates within one poll iteration and issues no further connect
\* attempt, whatever operations follow (a later start_watch() included).
C19_StopEndsWatcher ==
    \A i \in WatcherIds :
        ~(watchers[i].sig = "iterated" /\ watchers[i].pc = "init")

\* without a start_watch() after the stop, every thread told to stop ends at
\* its next test of the loop condition
C19_EndsUnlessRestarted ==
    [][ \A i \in WatcherIds :
          (watchers[i].sig = "signalled" /\ watchers[i].pc = "test"
             /\ watchers'[i] # watchers[i] /\ watch_stop_event = "set")
          => watchers'[i].pc = "done" ]_vars


(***************************************************************************)
(* Claims about the retry round and corrupt frames (SpecCam)               *)
(***************************************************************************)
\* C21: one get_frame call retries only transient-busy failures, issues at
\* most one capture attempt per entry of the backoff schedule (3) and
\* returns; when every attempt was busy and the counter is below the
\* threshold it returns no frame and leaves the session open and not lost.
C21_RetryRound ==
    [][ /\ attempt <= max_attempts
        /\ (fpc = "capture" /\ fpc' = "attempt")
              => (busyRun' = busyRun + 1 /\ attempt' = attempt + 1)
        /\ (fpc = "capture" /\ fpc' = "exhausted")
              => (busyRun' = busyRun + 1 /\ attempt = max_attempts)
        /\ (fpc = "exhausted" /\ fpc' # fpc
               /\ io_error_counter < io_error_threshold)
              => /\ frameCall' = [class |-> "busy", ret |-> "nothing"]
                 /\ fpc' = "frame_error"
                 /\ camera' = camera
                 /\ lost_device' = lost_device
      ]_vars

\* three busy attempts from a counter of zero: the call has returned
\* nothing, the session is open and not lost
C21_Witness ==
    /\ fpc = "frame_error"
    /\ frameCall = [class |-> "busy", ret |-> "nothing"]
    /\ io_error_counter = max_attempts
    /\ busyRun = max_attempts
    /\ camera = "open"
    /\ ~lost_device

\* a corrupt or undecodable frame
BadFrame == {"corrupt", "failed"}

SnapQueued ==
    SeqRange(FileNames(snap.events)) \subseteq SeqRange(pending_downloads)

\* C23 as stated: on every capture attempt the drain runs under the lock
\* right before the capture, so every file-added notification pending at
\* that moment is queued before that attempt's capture.
C23_AsStated ==
    /\ dpc \in {"poll", "wait", "capture"} => camera_lock = "frame"
    /\ dpc = "capture" => SnapQueued

\* C23: on every capture attempt the drain runs after the device lock is
\* acquired and right before the capture call, within the same lock hold;
\* when tethering is on and the driver does not raise during the drain,
\* every file-added notification pending at that moment is queued before
\* that attempt's capture.
C23_DrainThenCapture ==
    /\ dpc \in {"poll", "wait", "capture"} => camera_lock = "frame"
    /\ (dpc = "capture" /\ snap.tether /\ drainEnd # "raised")
          => (drainEnd = "timeout" /\ SnapQueued)

\* two pictures were pending; both are queued when the capture is due
C23_Witness ==
    /\ dpc = "capture"
    /\ drainEnd = "timeout"
    /\ Len(FileNames(snap.events)) >= 2
    /\ SnapQueued

\* C24: one drain consumes every notification pending at the device, not
\* just one, appends one notice per file-added event in arrival order, skips
\* other event types, and ends when the driver reports no more events.
C24_DrainsAll ==
    /\ [][ (drainEnd = "running" /\ drainEnd' = "timeout")
              => /\ events = <<>>
                 /\ IsPrefix(snap.events, consumed)
                 /\ pending_downloads' = queueAtStart \o FileNames(consumed)
         ]_vars
    /\ [](dpc = "wait" => pending_downloads
                             = queueAtStart \o FileNames(consumed))
    /\ (dpc = "wait" ~> dpc = "capture")

\* a drain that took a picture, another event and a second picture
C24_Witness ==
    /\ dpc = "capture"
    /\ drainEnd = "timeout"
    /\ Len(consumed) = 3
    /\ Len(FileNames(consumed)) = 2
    /\ consumed[2].type = "other"
    /\ pending_downloads = queueAtStart \o FileNames(consumed)

\* C25: an exception of the driver during the drain is swallowed: notices
\* queued earlier in that drain stay queued, the capture of that attempt is
\* still issued, and the failure is not counted as a capture error.
C25_RaiseSwallowed ==
    [][ (dpc = "wait" /\ drainEnd' = "raised")
           => /\ pending_downloads' = queueAtStart \o FileNames(consumed)
              /\ pending_downloads' = pending_downloads
              /\ io_error_counter' = io_error_counter
              /\ dpc' = "capture"
              /\ camera_lock' = "frame"
      ]_vars

\* the driver raised after one picture had been queued; the capture is due
C25_Witness ==
    /\ dpc = "capture"
    /\ drainEnd = "raised"
    /\ FileNames(consumed) # <<>>
    /\ pending_downloads = queueAtStart \o FileNames(consumed)
    /\ io_error_counter = 0


(***************************************************************************)
(* Claims about the capture-then-download path (SpecLock)                  *)
(***************************************************************************)
\* C26: queued file notices are consumed only after the capturing thread
\* has released the device lock: a thread never tries to acquire the
\* non-reentrant lock for a download while it still holds it for the
\* capture, so the capture-then-download path cannot block on itself.
C26_DownloadsAfterRelease ==
    \A t \in Callers :
        callers[t].pc \in {"downloads", "dl_lock"} => holder # t

\* a thread waits for the lock with a download to do while another thread
\* holds the lock for its capture
C26_Witness ==
    \E t \in Callers :
        /\ callers[t].pc = "dl_lock"
        /\ callers[t].dl > 0
        /\ holder \in Callers \ {t}
        /\ callers[holder].pc \in {"drain", "draining", "capture", "capturing"}


(***************************************************************************)
(* Claims about the cache lock (SpecCursor)                                *)
(***************************************************************************)
\* C27: every mutation of the cache's cursor (latest, previous, next,
\* replace, reset-to-live, ...) is performed while holding the single cache
\* lock, so no navigation call can interleave with another operation's
\* read-modify-write of the cursor.
C27_AsStated ==
    [][ current_index' # current_index
           => (cache_lock # "free" /\ lastWriter' = cache_lock) ]_vars

\* the mutations other than reset_to_live_view are made by the holder of
\* the lock
C27_LockedExceptReset ==
    [][ (current_index' # current_index /\ lastWriter' # "reset")
           => (cache_lock # "free" /\ lastWriter' = cache_lock) ]_vars

\* navigate_next stored cursor + 1, reset_to_live_view wrote -1 in between,
\* and the call goes on to return self._cache[-1]
C27_ResetInsideNavigation ==
    /\ upc = [pc |-> "return", dir |-> "next"]
    /\ cache_lock = "nav"
    /\ lastWriter = "reset"
    /\ current_index = -1

\* C36: the tethered-image callback is never invoked while the cache lock
\* is held, on the append path and on the replace path alike, so a callback
\* that queries the cache synchronously (get_cache_info) cannot block on the
\* non-reentrant cache lock.
C36_AsStated ==
    (preview_callback /\ ipc \in {"callback", "info"}) => cache_lock # "ins"

\* the inserting thread waits in get_cache_info for the lock it holds itself
C36_WaitsForOwnLock ==
    /\ preview_callback
    /\ ipc = "info"
    /\ cache_lock = "ins"

\* a callback that has started to wait for a lock held by its own thread
\* never returns
C36_OwnLockNeverReturned ==
    [][ (ipc = "info" /\ cache_lock = "ins")
           => (ipc' = "info" /\ cache_lock' = "ins") ]_vars


(***************************************************************************)
(* Claims about the pending map (SpecPend)                                 *)
(***************************************************************************)
\* C28: when a pending RAW entry is consumed by its JPEG sibling before the
\* pairing timeout expires, the entry's timeout is cancelled: its later
\* expiry removes no pending entry and starts no RAW processing, also when
\* a new pending entry with the same basename has been created meanwhile.
C28_AsStated ==
    [][ \A g \in pend_consumed :
            (g \in pend_timers /\ g \notin pend_timers')
               => (pend_map' = pend_map /\ pend_last'.popped = 0
                      /\ ~pend_last'.started) ]_vars

\* without a newer entry of the same basename the expiry of a consumed
\* entry's timer does nothing
C28_NoOpWithoutNewEntry ==
    [][ \A g \in pend_consumed :
            (g \in pend_timers /\ g \notin pend_timers' /\ pend_map = NoEntry)
               => (pend_map' = pend_map /\ pend_last'.popped = 0
                      /\ ~pend_last'.started) ]_vars

\* the timer of the consumed first entry has removed the second entry and
\* started RAW processing for it
C28_OldTimerHitsNewEntry ==
    /\ pend_last.timer \in pend_consumed
    /\ pend_last.popped > pend_last.timer
    /\ pend_last.started


\* C29: a pending entry is created only when a RAW file arrives with no
\* JPEG sibling on disk, and every entry is eventually removed, by the
\* arrival of its JPEG sibling or by a timeout firing: under fair
\* scheduling of the timers no entry stays in the pending map forever.
C29_CreatedAndRemoved ==
    /\ [][ (pend_map' # NoEntry /\ pend_map' # pend_map)
              => /\ "jpg" \notin pend_files
                 /\ "raw" \in pend_files'
                 /\ pend_notices' = pend_notices + 1
                 /\ pend_map' \in pend_timers'
         ]_vars
    /\ [](pend_map # NoEntry => pend_map \in pend_timers)
    /\ \A g \in 1..MaxPendNotices : (pend_map = g ~> pend_map # g)

\* an entry nobody claimed has been removed by its own timer
C29_Witness ==
    /\ pend_last.timer > 0
    /\ pend_last.popped = pend_last.timer
    /\ pend_map = NoEntry
    /\ pend_consumed = {}


(***************************************************************************)
(* Claims about the orientation (SpecOrient)                               *)
(***************************************************************************)
\* C30: the orientation always holds one of the four valid codes and is
\* changed only by set_orientation with a valid code: set_orientation with
\* an invalid code, connect, capture, error handling, tether start/stop and
\* release all leave it unchanged.
C30_AsStated ==
    /\ [](orientation \in ValidOrientations)
    /\ [][ orientation' # orientation
              => /\ orient_op'.name = "set_orientation"
                 /\ orient_op'.code \in ValidOrientations ]_vars

\* the orientation is always valid; set_orientation with a valid code and
\* release() (directly or from the error handling) are what changes it
C30_ValidAndSetOrReleased ==
    /\ [](orientation \in ValidOrientations)
    /\ [][ orientation' # orientation
              => \/ /\ orient_op'.name = "set_orientation"
                    /\ orient_op'.code \in ValidOrientations
                    /\ orientation' = orient_op'.code
                 \/ /\ orient_op'.name \in {"release", "error"}
                    /\ orientation' = ORIENTATION_NORMAL ]_vars


(***************************************************************************)
(* Claims about the rate gate (SpecGate)                                   *)
(***************************************************************************)
\* C31: any two consecutive preview-capture calls sent to the device,
\* including a retry that follows a failed attempt, are separated by at
\* least the minimum inter-capture interval (30 ms).
C31_AsStated ==
    [][ (gate_pc = "capture" /\ gate_pc' = "result")
           => since_call >= min_frame_interval ]_vars

\* the gate holds for every capture but the first retry of a call, whose
\* delay is 0.0
C31_HoldsButFirstRetry ==
    [][ (gate_pc = "capture" /\ gate_pc' = "result" /\ gate_attempt # 2)
           => since_call >= min_frame_interval ]_vars


(***************************************************************************)
(* Claims about the frame threads (SpecLoops)                              *)
(***************************************************************************)
\* C32: at most one frame loop is running at any time: once the streaming
\* flag has been cleared, the running loop ends within one iteration and
\* cannot observe a later re-set of the flag and keep capturing alongside
\* the newly started loop.
C32_AsStated ==
    /\ [](Cardinality({i \in LoopIds : loops[i].pc = "call"}) <= 1)
    /\ [][ \A i \in LoopIds :
              (loops[i].stale /\ loops[i].pc = "test")
                 => loops'[i].pc # "call" ]_vars

\* a loop that tests the flag while it is clear does end
C32_EndsWhenSeenClear ==
    [][ \A i \in LoopIds :
           (loops[i].pc = "test" /\ ~streaming_event /\ loops'[i] # loops[i])
              => loops'[i].pc = "ended" ]_vars


(***************************************************************************)
(* Claims about sessions and threads (SpecCam)                             *)
(***************************************************************************)
\* C33: a disconnect notification raised for one session never tears down
\* a later session: when the watcher has re-established a session before
\* the scheduled disconnect handler runs, the handler's release does not
\* close or clear the new session.
C33_AsStated ==
    [][ (/\ mpc = "idle"
         /\ mainQ # <<>>
         /\ Head(mainQ) = "camera_lost"
         /\ mainQ' = Tail(mainQ)
         /\ camera = "open")
           => camera' = "open" ]_vars

\* C34: session teardown never overlaps a device operation: release() and
\* connect() never run while a capture, event drain or download is in
\* flight on that session in another thread.
C34_AsStated ==
    [][ (camera = "open" /\ camera' # "open" /\ fpc' = fpc)
           => camera_lock = "free" ]_vars

\* C35: at most one un-released device session exists at any time:
\* connect() never replaces a live session handle without that session
\* having been released first.
C35_AsStated ==
    [][ camera = "open" => camera' # "uninit" ]_vars

\* C40: once a tether callback has been registered, the watcher re-enabling
\* tethering after a reconnect does not clear it: every file downloaded
\* while tethering is enabled is delivered to the registered callback.
C40_AsStated ==
    [][ /\ tether_callback # "None" => tether_callback' # "None"
        /\ (fpc = "download" /\ fpc' # fpc /\ camera = "open"
              /\ tether_running)
              => tether_callback # "None" ]_vars

\* a file is being downloaded on an open session with tethering on and no
\* callback to hand it to
C40_DownloadWithoutCallback ==
    /\ fpc = "download"
    /\ camera = "open"
    /\ tether_running
    /\ tether_callback = "None"


(***************************************************************************)
(* Claims about files kept and deleted by pairing (SpecPair)               *)
(***************************************************************************)
\* C37: no captured image is lost by pairing: a RAW file is deleted from
\* disk only after an image for its basename has been persisted and
\* inserted into the cache; when processing of the sibling JPEG fails, the
\* RAW file is kept.
C37_AsStated ==
    [][ \A b \in Basenames :
            (disk[<<b, "raw">>] # "absent" /\ disk'[<<b, "raw">>] = "absent")
               => (persisted[b] # "none" /\ FindBase(cache, b) # 0) ]_vars

\* the extraction thread deletes the RAW file only after its thumbnail has
\* been persisted and cached
C37_ExtractionKeepsImage ==
    [][ \A b \in Basenames :
            (/\ disk[<<b, "raw">>] # "absent"
             /\ disk'[<<b, "raw">>] = "absent"
             /\ npc # "delete")
               => (persisted[b] # "none" /\ FindBase(cache, b) # 0) ]_vars


(***************************************************************************)
(* Claims about basenames in the cache (SpecCache)                         *)
(***************************************************************************)
\* C38: no two cache entries ever share a basename: after any sequence of
\* startup load, insert and replace operations each basename occurs at most
\* once in the cache.
C38_AsStated ==
    \A i, j \in 1..Len(cache) :
        i # j => cache[i].base # cache[j].base

\* two entries of one basename are never both the result of an insert: one
\* of them was loaded from disk at startup
C38_InsertedOnce ==
    \A i, j \in 1..Len(cache) :
        (i # j /\ cache[i].base = cache[j].base)
           => (cache[i].origin = "disk" \/ cache[j].origin = "disk")

\* the startup load has put <b>.jpeg and <b>.jpg of one basename in the cache
C38_TwinsLoaded ==
    \E i, j \in 1..Len(cache) :
        /\ i # j
        /\ cache[i].base = cache[j].base
        /\ cache[i].ext # cache[j].ext


(***************************************************************************)
(* Claims about the list of queued downloads (SpecTake)                    *)
(***************************************************************************)
\* the notices the drain has queued so far
TakeQueued == 1..(dl_shots - dl_dev)
\* the notices a loop still has in front of it, or that are still in the
\* list self._pending_downloads refers to
TakeWaiting ==
    {dl_lists[dl_ref][k] : k \in 1..Len(dl_lists[dl_ref])}
    \cup UNION {{dl_lists[takers[t].ref][k] :
                    k \in (takers[t].pos + 1)..Len(dl_lists[takers[t].ref])} :
                t \in {u \in Takers : takers[u].pc \in {"rebind", "iterate"}}}
TakeHanded == {dl_handed[k] : k \in 1..Len(dl_handed)}

\* every queued notice is handed to download at most once, in queue order,
\* and until then it is in a list that will be downloaded
TakeOnceInOrder ==
    /\ \A i, j \in 1..Len(dl_handed) : i < j => dl_handed[i] < dl_handed[j]
    /\ \A n \in TakeQueued : n \in TakeHanded \/ n \in TakeWaiting

\* C39: every file-added notice queued by the event drain is handed to
\* download at most once and in queue order, and is never discarded before
\* that: when the capture attempt that follows the drain fails, the notice
\* stays queued and is downloaded after the next successful capture.
C39_AsStated == TakeOnceInOrder

\* with a single frame loop on the handler the notices are handed over
\* once, in order, and none is dropped
C39_SingleLoop == dl_loops = 1 => TakeOnceInOrder

\* a notice has been handed to download twice
C39_HandedTwice ==
    \E i, j \in 1..Len(dl_handed) : i < j /\ dl_handed[i] = dl_handed[j]

\* a queued notice is in no list any more and was never handed to download
C39_Dropped ==
    \E n \in TakeQueued : n \notin TakeHanded /\ n \notin TakeWaiting

====
